---- MODULE Spec2Model ----
(***************************************************************************)
(* Banking-fraud simulation: the shared store (src/store.ts), the          *)
(* CoreBanking / DefensiveControls / AnalystDashboard handlers and the     *)
(* asynchronous attack scenarios of AttackSimulation.tsx.                  *)
(*                                                                         *)
(* Time is counted in ticks of 30 000 ms.  A handler reads the `state` of  *)
(* the latest render and applies setState(prev => ...) to it in the same   *)
(* step.  A scenario is an async function: it keeps the `state` captured   *)
(* by the closure of the render in which it was launched (field snap) and  *)
(* runs one step per `await delay(...)`; its setState updaters are applied *)
(* to the store that is current when the step runs.                        *)
(***************************************************************************)
EXTENDS Integers, Sequences, FiniteSets, TLC

VARIABLES
  state,          \* StoreState held by App (useState in App.tsx:28)
  epoch,          \* number of Resets so far; part of every generated id
  now,            \* Date.now(), in ticks
  activeTab,      \* App.tsx:27
  mfaRequired,    \* CoreBanking component state
  pendingTransfer,\* CoreBanking component state
  running,        \* AttackSimulation component state of the mounted instance
  procs,          \* scenario coroutines in flight
  last,           \* what the last step did (history)
  debited         \* history: amount taken out of each account in the current limit period

vars == <<state, epoch, now, activeTab, mfaRequired, pendingTransfer, running, procs, last, debited>>

----------------------------------------------------------------------------
(* Bounds of the model *)
MaxResets == 1          \* Resets per behaviour
MaxUsers == 5           \* seed users plus registrations

(* Time, in ticks of 30 000 ms *)
WindowTicks == 2        \* 60000 ms
LockTicks == 30         \* 900000 ms
HourTicks == 120
DayTicks == 2880
StartOfRun == 1440      \* the run starts at 12:00 of day 0

NULL == -1
NoReason == "none"

USER_001 == 1
USER_002 == 2
USER_003 == 3
USER_MULE == 4
ACC_001 == 1
ACC_002 == 2
ACC_003 == 3
ACC_MULE == 4

IPS == <<"192.168.1.100", "10.0.0.55", "172.16.0.1", "203.0.113.42", "198.51.100.7", "45.33.32.156", "185.220.101.1", "91.132.147.5">>
DEVICES == <<"Chrome/Windows", "Firefox/MacOS", "Safari/iOS", "Chrome/Android", "Edge/Windows", "Unknown/Linux", "Tor Browser/Unknown">>
GEOS == <<"Manila, PH", "Cebu, PH", "Davao, PH", "Lagos, NG", "Moscow, RU", "Beijing, CN", "New York, US", "London, UK">>

HomeGeos == {"Manila, PH", "Cebu, PH", "Davao, PH"}

Range(s) == {s[k] : k \in 1..Len(s)}

(* Outcomes of randomIP / randomDevice / randomGeo *)
randomIP(familiar) == IF familiar THEN {IPS[k] : k \in 1..3} ELSE {IPS[k] : k \in 4..Len(IPS)}
randomDevice(familiar) == IF familiar THEN {DEVICES[k] : k \in 1..3} ELSE {DEVICES[k] : k \in 4..Len(DEVICES)}
randomGeo(familiar) == IF familiar THEN {GEOS[k] : k \in 1..3} ELSE {GEOS[k] : k \in 4..Len(GEOS)}

----------------------------------------------------------------------------
(* simpleHash: h = (h*31 + c) in 32-bit two's complement, then Math.abs.   *)
(* A 32-bit word is kept as <<high 16 bits, low 16 bits>>.                 *)
HashStep(h, c) ==
  LET lo == h[2] * 31 + c
      hi == h[1] * 31 + (lo \div 65536)
  IN <<hi % 65536, lo % 65536>>

RECURSIVE HashFold(_, _, _)
HashFold(pw, k, h) == IF k > Len(pw) THEN h ELSE HashFold(pw, k + 1, HashStep(h, pw[k]))

Abs32(h) ==
  IF h[1] < 32768 THEN h
  ELSE IF h[2] = 0 THEN <<65536 - h[1], 0>>
  ELSE <<65535 - h[1], 65536 - h[2]>>

simpleHash(pw) == Abs32(HashFold(pw, 1, <<0, 0>>))

verifyHash(pw, hash) == simpleHash(pw) = hash

(* Passwords, as character codes *)
PW_password123 == <<112, 97, 115, 115, 119, 111, 114, 100, 49, 50, 51>>
PW_securepass == <<115, 101, 99, 117, 114, 101, 112, 97, 115, 115>>
PW_mypassword == <<109, 121, 112, 97, 115, 115, 119, 111, 114, 100>>
PW_mule123 == <<109, 117, 108, 101, 49, 50, 51>>
PW_letmein == <<108, 101, 116, 109, 101, 105, 110>>

----------------------------------------------------------------------------
(* Seed data and the initial store *)
seedUsers == <<
  [id |-> USER_001, username |-> "jdelacruz", passwordHash |-> simpleHash(PW_password123),
   isLocked |-> FALSE, lockoutUntil |-> NULL, failedLoginAttempts |-> 0,
   knownIPs |-> {"192.168.1.100", "10.0.0.55"}, knownDevices |-> {"Chrome/Windows", "Safari/iOS"}, accountAge |-> 90],
  [id |-> USER_002, username |-> "mreyes", passwordHash |-> simpleHash(PW_securepass),
   isLocked |-> FALSE, lockoutUntil |-> NULL, failedLoginAttempts |-> 0,
   knownIPs |-> {"192.168.1.100", "172.16.0.1"}, knownDevices |-> {"Firefox/MacOS", "Chrome/Android"}, accountAge |-> 180],
  [id |-> USER_003, username |-> "rsantos", passwordHash |-> simpleHash(PW_mypassword),
   isLocked |-> FALSE, lockoutUntil |-> NULL, failedLoginAttempts |-> 0,
   knownIPs |-> {"10.0.0.55"}, knownDevices |-> {"Chrome/Windows"}, accountAge |-> 30],
  [id |-> USER_MULE, username |-> "mule_account", passwordHash |-> simpleHash(PW_mule123),
   isLocked |-> FALSE, lockoutUntil |-> NULL, failedLoginAttempts |-> 0,
   knownIPs |-> {"203.0.113.42"}, knownDevices |-> {"Tor Browser/Unknown"}, accountAge |-> 2] >>

seedAccounts == <<
  [id |-> ACC_001, userId |-> USER_001, accountNumber |-> "9001234567", balance |-> 150000, dailyTransferred |-> 0, dailyTransferDate |-> NULL, isFrozen |-> FALSE],
  [id |-> ACC_002, userId |-> USER_002, accountNumber |-> "9009876543", balance |-> 320000, dailyTransferred |-> 0, dailyTransferDate |-> NULL, isFrozen |-> FALSE],
  [id |-> ACC_003, userId |-> USER_003, accountNumber |-> "9005551234", balance |-> 75000, dailyTransferred |-> 0, dailyTransferDate |-> NULL, isFrozen |-> FALSE],
  [id |-> ACC_MULE, userId |-> USER_MULE, accountNumber |-> "9006660001", balance |-> 500, dailyTransferred |-> 0, dailyTransferDate |-> NULL, isFrozen |-> FALSE] >>

Categories == {"rate_limiting", "lockout", "mfa", "transaction_limit", "ip_blacklist", "step_up_auth"}

defaultControls ==
  [c \in Categories |->
     [enabled |-> TRUE,
      maxAttemptsPerMinute |-> 5,
      maxFailedAttempts |-> 5, lockoutDurationMinutes |-> 15,
      riskThreshold |-> IF c = "step_up_auth" THEN 70 ELSE 60,
      dailyLimit |-> 100000,
      amountThreshold |-> 50000]]

createInitialState ==
  [users |-> seedUsers, accounts |-> seedAccounts, transactions |-> <<>>, loginLogs |-> <<>>,
   fraudAlerts |-> <<>>, securityControls |-> defaultControls,
   blacklistedIPs |-> {"185.220.101.1", "91.132.147.5"}]

----------------------------------------------------------------------------
(* generateId returns a token that no other entity has.  The model names an *)
(* entity by the number of Resets before its creation and its position in   *)
(* the array it is appended to; an array only grows between two Resets.      *)
IdBase == 1000
IdsPerEpoch == 100
generateId(list) == IdBase + IdsPerEpoch * epoch + Len(list) + 1

----------------------------------------------------------------------------
(* Array helpers *)
FindIdx(seq, P(_)) ==
  IF \E k \in 1..Len(seq) : P(seq[k])
  THEN CHOOSE k \in 1..Len(seq) : P(seq[k]) /\ \A j \in 1..(k - 1) : ~P(seq[j])
  ELSE 0

Count(seq, P(_)) == Cardinality({k \in 1..Len(seq) : P(seq[k])})

MapSeq(seq, F(_)) == [k \in 1..Len(seq) |-> F(seq[k])]

Min_First(a, b) == a
Min(a, b) == IF a < b THEN a ELSE b

toDateString(t) == t \div DayTicks
getHours(t) == (t % DayTicks) \div HourTicks

----------------------------------------------------------------------------
(* Fraud detection rules *)
evaluateTransactionRisk(tx, st) ==
  LET large == tx.amount > 50000
      recentTxs == Count(st.transactions, LAMBDA t : t.fromUserId = tx.fromUserId /\ tx.timestamp - t.timestamp < WindowTicks)
      velocity == recentTxs >= 2
      ui == FindIdx(st.users, LAMBDA u : u.id = tx.fromUserId)
      newIP == ui # 0 /\ tx.ip \notin st.users[ui].knownIPs
      newDevice == ui # 0 /\ tx.device \notin st.users[ui].knownDevices
      ti == FindIdx(st.users, LAMBDA u : u.id = tx.toUserId)
      newDest == ti # 0 /\ st.users[ti].accountAge < 7
      foreign == tx.geoLocation \notin HomeGeos
      hour == getHours(tx.timestamp)
      offHours == hour < 6 \/ hour >= 23
      raw == (IF large THEN 30 ELSE 0) + (IF velocity THEN 25 ELSE 0) + (IF newIP THEN 20 ELSE 0)
             + (IF newDevice THEN 15 ELSE 0) + (IF newDest THEN 20 ELSE 0) + (IF foreign THEN 15 ELSE 0)
             + (IF offHours THEN 10 ELSE 0)
      reasons == (IF large THEN <<"Large transaction">> ELSE <<>>)
                 \o (IF velocity THEN <<"Velocity">> ELSE <<>>)
                 \o (IF newIP THEN <<"Unknown IP">> ELSE <<>>)
                 \o (IF newDevice THEN <<"Unknown device">> ELSE <<>>)
                 \o (IF newDest THEN <<"Transfer to new account">> ELSE <<>>)
                 \o (IF foreign THEN <<"Foreign location">> ELSE <<>>)
                 \o (IF offHours THEN <<"Off-hours transaction">> ELSE <<>>)
      score == Min(raw, 100)
  IN [riskScore |-> score, reasons |-> reasons, isFlagged |-> score >= 40]

(* Check security controls.  params.amount and params.riskScore are 0 for a login. *)
Allow_StepUp == [allowed |-> TRUE, reason |-> NoReason, requiresMFA |-> TRUE]
Allow == [allowed |-> TRUE, reason |-> NoReason, requiresMFA |-> FALSE]
Deny(reason) == [allowed |-> FALSE, reason |-> reason, requiresMFA |-> FALSE]

DailyTotal_Zero(st, userId, t) == 0
DailyTotal_Stored(st, userId, t) ==
  LET ai == FindIdx(st.accounts, LAMBDA a : a.userId = userId)
  IN IF ai # 0 THEN st.accounts[ai].dailyTransferred ELSE 0
DailyTotal(st, userId, t) ==
  LET ai == FindIdx(st.accounts, LAMBDA a : a.userId = userId)
  IN IF ai # 0 /\ st.accounts[ai].dailyTransferDate = toDateString(t) THEN st.accounts[ai].dailyTransferred ELSE 0

(* user?.isLocked && user.lockoutUntil && Date.now() < user.lockoutUntil *)
LockedOut_Never(st, userId, t) == FALSE
LockedOut_Forever(st, userId, t) ==
  LET ui == FindIdx(st.users, LAMBDA u : u.id = userId)
  IN ui # 0 /\ st.users[ui].isLocked
LockedOut(st, userId, t) ==
  LET ui == FindIdx(st.users, LAMBDA u : u.id = userId)
  IN /\ ui # 0
     /\ st.users[ui].isLocked
     /\ st.users[ui].lockoutUntil # NULL /\ st.users[ui].lockoutUntil # 0
     /\ t < st.users[ui].lockoutUntil

checkSecurityControls_StepUpFirst(action, st, params, t) ==
  LET controls == st.securityControls
      recentLogins == Count(st.loginLogs, LAMBDA l : l.userId = params.userId /\ t - l.timestamp < WindowTicks)
  IN
  IF controls["ip_blacklist"].enabled /\ params.ip \in st.blacklistedIPs
    THEN Deny("IP is blacklisted")
  ELSE IF action = "login" /\ controls["rate_limiting"].enabled
          /\ recentLogins >= controls["rate_limiting"].maxAttemptsPerMinute
    THEN Deny("Rate limit exceeded")
  ELSE IF action = "login" /\ controls["lockout"].enabled /\ LockedOut(st, params.userId, t)
    THEN Deny("Account locked due to too many failed attempts")
  ELSE IF action = "transaction" /\ controls["step_up_auth"].enabled
          /\ (params.amount > controls["step_up_auth"].amountThreshold
              \/ params.riskScore > controls["step_up_auth"].riskThreshold)
    THEN [allowed |-> TRUE, reason |-> "Step-up authentication required", requiresMFA |-> TRUE]
  ELSE IF action = "transaction" /\ controls["transaction_limit"].enabled /\ params.amount # 0
          /\ DailyTotal(st, params.userId, t) + params.amount > controls["transaction_limit"].dailyLimit
    THEN Deny("Daily transfer limit exceeded")
  ELSE IF action = "transaction" /\ controls["mfa"].enabled /\ params.riskScore > controls["mfa"].riskThreshold
    THEN [allowed |-> TRUE, reason |-> "MFA required - risk threshold exceeded", requiresMFA |-> TRUE]
  ELSE Allow

checkSecurityControls(action, st, params, t) ==
  LET controls == st.securityControls
      recentLogins == Count(st.loginLogs, LAMBDA l : l.userId = params.userId /\ t - l.timestamp < WindowTicks)
      ui == FindIdx(st.users, LAMBDA u : u.id = params.userId)
  IN
  IF controls["ip_blacklist"].enabled /\ params.ip \in st.blacklistedIPs
    THEN Deny("IP is blacklisted")
  ELSE IF action = "login" /\ controls["rate_limiting"].enabled
          /\ recentLogins >= controls["rate_limiting"].maxAttemptsPerMinute
    THEN Deny("Rate limit exceeded")
  ELSE IF action = "login" /\ controls["lockout"].enabled /\ LockedOut(st, params.userId, t)
    THEN Deny("Account locked due to too many failed attempts")
  ELSE IF action = "transaction" /\ controls["transaction_limit"].enabled /\ params.amount # 0
          /\ DailyTotal(st, params.userId, t) + params.amount > controls["transaction_limit"].dailyLimit
    THEN Deny("Daily transfer limit exceeded")
  ELSE IF action = "transaction" /\ controls["step_up_auth"].enabled
          /\ (params.amount > controls["step_up_auth"].amountThreshold
              \/ params.riskScore > controls["step_up_auth"].riskThreshold)
    THEN [allowed |-> TRUE, reason |-> "Step-up authentication required", requiresMFA |-> TRUE]
  ELSE IF action = "transaction" /\ controls["mfa"].enabled /\ params.riskScore > controls["mfa"].riskThreshold
    THEN [allowed |-> TRUE, reason |-> "MFA required - risk threshold exceeded", requiresMFA |-> TRUE]
  ELSE Allow

----------------------------------------------------------------------------
(* History of debits.  A debit is a decrease of an account's balance.  The   *)
(* period restarts with the calendar day, with Reset and with every change   *)
(* of the transaction-limit control.                                         *)
ZeroDebits(st) == [id \in {st.accounts[k].id : k \in 1..Len(st.accounts)} |-> 0]

DebitedOf(id) == IF id \in DOMAIN debited THEN debited[id] ELSE 0

BalanceOf(st, id) ==
  LET k == FindIdx(st.accounts, LAMBDA a : a.id = id)
  IN IF k = 0 THEN 0 ELSE st.accounts[k].balance

HasAccount(st, id) == FindIdx(st.accounts, LAMBDA a : a.id = id) # 0

Observe ==
  debited' =
    IF \/ last'.op = "reset"
       \/ toDateString(now') # toDateString(now)
       \/ state'.securityControls["transaction_limit"] # state.securityControls["transaction_limit"]
      THEN ZeroDebits(state')
      ELSE [id \in {state'.accounts[k].id : k \in 1..Len(state'.accounts)} |->
              DebitedOf(id) + (IF HasAccount(state, id) /\ BalanceOf(state', id) < BalanceOf(state, id)
                                 THEN BalanceOf(state, id) - BalanceOf(state', id) ELSE 0)]

----------------------------------------------------------------------------
(* Records built by the handlers *)
NoPending == [from |-> "", to |-> "", amount |-> 0]

(* What a step did: the operation, its outcome, who issued it, the gate decision it used and the request IP *)
Step(op, outcome, by, gate, ip) == [op |-> op, outcome |-> outcome, by |-> by, gate |-> gate, ip |-> ip]

MkTx(id, fromAcc, toAcc, amount, ctx, status, riskScore, isFlagged, reasons, reviewStatus, scenario) ==
  [id |-> id, fromAccountId |-> fromAcc.id, toAccountId |-> toAcc.id,
   fromUserId |-> fromAcc.userId, toUserId |-> toAcc.userId,
   amount |-> amount, timestamp |-> now, status |-> status,
   riskScore |-> riskScore, isFlagged |-> isFlagged, fraudReasons |-> reasons,
   ip |-> ctx.ip, device |-> ctx.device, geoLocation |-> ctx.geo,
   reviewStatus |-> reviewStatus, reviewedBy |-> "null", reviewNote |-> "null",
   attackScenario |-> scenario]

MkAlert(id, transactionId, loginLogId, type, severity) ==
  [id |-> id, transactionId |-> transactionId, loginLogId |-> loginLogId,
   type |-> type, severity |-> severity, status |-> "open", assignedTo |-> "null"]

MkLoginLog(id, user, ip, device, geo, success, blocked, reason) ==
  [id |-> id, userId |-> user.id, username |-> user.username, timestamp |-> now,
   ip |-> ip, device |-> device, geoLocation |-> geo,
   success |-> success, blocked |-> blocked, reason |-> reason]

TxPartial(fromAcc, toAcc, amount, ctx) ==
  [fromUserId |-> fromAcc.userId, toUserId |-> toAcc.userId, amount |-> amount,
   timestamp |-> now, ip |-> ctx.ip, device |-> ctx.device, geoLocation |-> ctx.geo]

Severity(riskScore) ==
  IF riskScore >= 80 THEN "critical" ELSE IF riskScore >= 60 THEN "high"
  ELSE IF riskScore >= 40 THEN "medium" ELSE "low"

(* prev.accounts.map(...) of a committed transfer *)
Debit(a, amount) == [a EXCEPT !.balance = a.balance - amount]
Credit_Dropped(a, amount) == a
Credit(a, amount) == [a EXCEPT !.balance = a.balance + amount]

(* let accounts = prev.accounts; if (txStatus !== 'blocked') accounts = ...map(...) *)
MoveFunds(accounts, fromId, toId, amount) ==
  MapSeq(accounts, LAMBDA a : IF a.id = fromId THEN Debit(a, amount)
                              ELSE IF a.id = toId THEN Credit(a, amount) ELSE a)

MoveUnlessBlocked_Always(accounts, txStatus, fromId, toId, amount) == MoveFunds(accounts, fromId, toId, amount)
MoveUnlessBlocked(accounts, txStatus, fromId, toId, amount) ==
  IF txStatus # "blocked" THEN MoveFunds(accounts, fromId, toId, amount) ELSE accounts

CommitAccounts(accounts, fromId, toId, amount, t) ==
  MapSeq(accounts, LAMBDA a :
    IF a.id = fromId
      THEN [Debit(a, amount) EXCEPT
              !.dailyTransferred = (IF a.dailyTransferDate = toDateString(t) THEN a.dailyTransferred ELSE 0) + amount,
              !.dailyTransferDate = toDateString(t)]
    ELSE IF a.id = toId THEN Credit(a, amount) ELSE a)

----------------------------------------------------------------------------
(* CoreBanking.executeTransfer.  closureMfa is the value of mfaRequired in   *)
(* the closure that runs it; viaVerify tells that handleMFAVerify has        *)
(* queued setMfaRequired(false) before the call.                             *)
executeTransfer(fromAccId, toAccId, amount, ctx, closureMfa, viaVerify, maxTx) ==
  LET fi == FindIdx(state.accounts, LAMBDA a : a.accountNumber = fromAccId)
      ti == FindIdx(state.accounts, LAMBDA a : a.accountNumber = toAccId)
      fromAcc == state.accounts[fi]
      toAcc == state.accounts[ti]
      txPartial == TxPartial(fromAcc, toAcc, amount, ctx)
      risk == evaluateTransactionRisk(txPartial, state)
      secCheck == checkSecurityControls("transaction", state,
                    [userId |-> fromAcc.userId, ip |-> ctx.ip, amount |-> amount, riskScore |-> risk.riskScore], now)
      afterVerify == IF viaVerify THEN FALSE ELSE mfaRequired
  IN
  IF fi = 0 \/ ti = 0 \/ fromAcc.isFrozen \/ fromAcc.balance < amount THEN
       /\ mfaRequired' = afterVerify
       /\ last' = Step(IF viaVerify THEN "mfa-verify" ELSE "transfer", "rejected", "user", Allow, ctx.ip)
       /\ UNCHANGED <<state, pendingTransfer>>
  ELSE IF ~secCheck.allowed THEN
       /\ Len(state.transactions) < maxTx
       /\ state' = [state EXCEPT !.transactions = Append(@,
                      MkTx(generateId(state.transactions), fromAcc, toAcc, amount, ctx, "blocked", risk.riskScore, TRUE,
                           Append(risk.reasons, secCheck.reason), "null", "null"))]
       /\ mfaRequired' = afterVerify
       /\ last' = Step(IF viaVerify THEN "mfa-verify" ELSE "transfer", "blocked", "user", secCheck, ctx.ip)
       /\ UNCHANGED pendingTransfer
  ELSE IF secCheck.requiresMFA /\ ~closureMfa THEN
       /\ mfaRequired' = TRUE
       /\ pendingTransfer' = [from |-> fromAccId, to |-> toAccId, amount |-> amount]
       /\ last' = Step("transfer", "pending", "user", secCheck, ctx.ip)
       /\ UNCHANGED state
  ELSE
       /\ Len(state.transactions) < maxTx
       /\ state' = [state EXCEPT
                      !.accounts = CommitAccounts(@, fromAcc.id, toAcc.id, amount, now),
                      !.transactions = Append(@,
                          MkTx(generateId(state.transactions), fromAcc, toAcc, amount, ctx,
                               IF risk.isFlagged THEN "flagged" ELSE "completed",
                               risk.riskScore, risk.isFlagged, risk.reasons,
                               IF risk.isFlagged THEN "pending" ELSE "null", "null")),
                      !.fraudAlerts = IF risk.isFlagged
                                        THEN Append(@, MkAlert(generateId(state.fraudAlerts), generateId(state.transactions), NULL, "transaction", Severity(risk.riskScore)))
                                        ELSE @]
       /\ mfaRequired' = FALSE
       /\ pendingTransfer' = NoPending
       /\ last' = Step(IF viaVerify THEN "mfa-verify" ELSE "transfer", IF risk.isFlagged THEN "flagged" ELSE "completed", "user", secCheck, ctx.ip)

(* The Send button is rendered only while no step-up is pending. *)
handleTransfer_NoFormCheck(fromAccount, toAccount, amt, ctx, maxTx) ==
  /\ activeTab = "banking"
  /\ ~mfaRequired
  /\ executeTransfer(fromAccount, toAccount, amt, ctx, mfaRequired, FALSE, maxTx)
  /\ UNCHANGED <<epoch, now, activeTab, running, procs>>
  /\ Observe

handleTransfer_Confirmed(fromAccount, toAccount, amt, ctx, maxTx) ==
  /\ activeTab = "banking"
  /\ ~mfaRequired
  /\ IF fromAccount = "" \/ toAccount = "" \/ amt <= 0 \/ fromAccount = toAccount
       THEN /\ last' = Step("transfer", "rejected", "user", Allow, ctx.ip)
            /\ UNCHANGED <<state, mfaRequired, pendingTransfer>>
       ELSE executeTransfer(fromAccount, toAccount, amt, ctx, TRUE, FALSE, maxTx)
  /\ UNCHANGED <<epoch, now, activeTab, running, procs>>
  /\ Observe

handleTransfer(fromAccount, toAccount, amt, ctx, maxTx) ==
  /\ activeTab = "banking"
  /\ ~mfaRequired
  /\ IF fromAccount = "" \/ toAccount = "" \/ amt <= 0 \/ fromAccount = toAccount
       THEN /\ last' = Step("transfer", "rejected", "user", Allow, ctx.ip)
            /\ UNCHANGED <<state, mfaRequired, pendingTransfer>>
       ELSE executeTransfer(fromAccount, toAccount, amt, ctx, mfaRequired, FALSE, maxTx)
  /\ UNCHANGED <<epoch, now, activeTab, running, procs>>
  /\ Observe

(* The Verify button is rendered only while a step-up is pending. *)
handleMFAVerify_AnyCode(mfaCode, ctx, maxTx) ==
  /\ activeTab = "banking"
  /\ mfaRequired
  /\ IF pendingTransfer # NoPending
       THEN executeTransfer(pendingTransfer.from, pendingTransfer.to, pendingTransfer.amount, ctx, mfaRequired, TRUE, maxTx)
       ELSE /\ last' = Step("mfa-verify", "invalid-code", "user", Allow, ctx.ip)
            /\ UNCHANGED <<state, mfaRequired, pendingTransfer>>
  /\ UNCHANGED <<epoch, now, activeTab, running, procs>>
  /\ Observe

handleMFAVerify(mfaCode, ctx, maxTx) ==
  /\ activeTab = "banking"
  /\ mfaRequired
  /\ IF mfaCode = "123456" /\ pendingTransfer # NoPending
       THEN executeTransfer(pendingTransfer.from, pendingTransfer.to, pendingTransfer.amount, ctx, mfaRequired, TRUE, maxTx)
       ELSE /\ last' = Step("mfa-verify", "invalid-code", "user", Allow, ctx.ip)
            /\ UNCHANGED <<state, mfaRequired, pendingTransfer>>
  /\ UNCHANGED <<epoch, now, activeTab, running, procs>>
  /\ Observe

cancelMFA ==
  /\ activeTab = "banking"
  /\ mfaRequired
  /\ mfaRequired' = FALSE
  /\ pendingTransfer' = NoPending
  /\ last' = Step("mfa-cancel", "", "user", Allow, "")
  /\ UNCHANGED <<state, epoch, now, activeTab, running, procs>>
  /\ Observe

----------------------------------------------------------------------------
(* App: tab change remounts the view (key={activeTab}), so the component    *)
(* state of the view that is left is lost; a scenario started by an         *)
(* unmounted AttackSimulation keeps running but its setRunning is ignored.  *)
Tabs == {"banking", "attack-sim", "defenses", "dashboard"}

setActiveTab(t) ==
  /\ t # activeTab
  /\ activeTab' = t
  /\ mfaRequired' = IF activeTab = "banking" THEN FALSE ELSE mfaRequired
  /\ pendingTransfer' = IF activeTab = "banking" THEN NoPending ELSE pendingTransfer
  /\ running' = IF activeTab = "attack-sim" THEN FALSE ELSE running
  /\ procs' = IF activeTab = "attack-sim" THEN MapSeq(procs, LAMBDA q : [q EXCEPT !.mounted = FALSE]) ELSE procs
  /\ last' = Step("nav", "", "user", Allow, "")
  /\ UNCHANGED <<state, epoch, now>>
  /\ Observe

Reset ==
  /\ epoch < MaxResets
  /\ state' = createInitialState
  /\ epoch' = epoch + 1
  /\ last' = Step("reset", "", "user", Allow, "")
  /\ UNCHANGED <<now, activeTab, mfaRequired, pendingTransfer, running, procs>>
  /\ Observe

Advance(d, limit) ==
  /\ now + d <= limit
  /\ now' = now + d
  /\ last' = Step("clock", "", "none", Allow, "")
  /\ UNCHANGED <<state, epoch, activeTab, mfaRequired, pendingTransfer, running, procs>>
  /\ Observe

Init ==
  /\ state = createInitialState
  /\ epoch = 0
  /\ now = StartOfRun
  /\ activeTab = "banking"
  /\ mfaRequired = FALSE
  /\ pendingTransfer = NoPending
  /\ running = FALSE
  /\ procs = <<>>
  /\ last = Step("init", "", "none", Allow, "")
  /\ debited = ZeroDebits(createInitialState)

----------------------------------------------------------------------------
(* Failed-login bookkeeping shared by handleLogin and runAccountTakeover *)
FailLogin_OffByOne(users, controls, userId, t) ==
  MapSeq(users, LAMBDA u :
    IF u.id = userId
      THEN LET attempts == u.failedLoginAttempts + 1
               maxAttempts == IF controls["lockout"].enabled THEN controls["lockout"].maxFailedAttempts ELSE 999
           IN [u EXCEPT !.failedLoginAttempts = attempts,
                        !.isLocked = attempts > maxAttempts,
                        !.lockoutUntil = IF attempts > maxAttempts THEN t + LockTicks ELSE NULL]
      ELSE u)
FailLogin(users, controls, userId, t) ==
  MapSeq(users, LAMBDA u :
    IF u.id = userId
      THEN LET attempts == u.failedLoginAttempts + 1
               maxAttempts == IF controls["lockout"].enabled THEN controls["lockout"].maxFailedAttempts ELSE 999
           IN [u EXCEPT !.failedLoginAttempts = attempts,
                        !.isLocked = attempts >= maxAttempts,
                        !.lockoutUntil = IF attempts >= maxAttempts THEN t + LockTicks ELSE NULL]
      ELSE u)

----------------------------------------------------------------------------
(* AttackSimulation: the scenarios.  A coroutine is                         *)
(*   [kind, pc, i, snap, mounted, logId, born]                               *)
(* snap is the `state` of the render in which the Launch button was clicked; *)
(* born is the number of Resets before the launch (history).                 *)
Proc(kind, pc) == [kind |-> kind, pc |-> pc, i |-> 0, snap |-> state, mounted |-> TRUE, logId |-> NULL, born |-> epoch]

RemoveAt(seq, k) == [j \in 1..(Len(seq) - 1) |-> IF j < k THEN seq[j] ELSE seq[j + 1]]

SnapUser(p, userId) == p.snap.users[FindIdx(p.snap.users, LAMBDA u : u.id = userId)]
SnapHasUser(p, userId) == FindIdx(p.snap.users, LAMBDA u : u.id = userId) # 0
SnapAcc(p, userId) == p.snap.accounts[FindIdx(p.snap.accounts, LAMBDA a : a.userId = userId)]
SnapHasAcc(p, userId) == FindIdx(p.snap.accounts, LAMBDA a : a.userId = userId) # 0

(* setRunning(false) at the end of a scenario *)
Finish_KeepGuard(k) ==
  /\ procs' = RemoveAt(procs, k)
  /\ UNCHANGED running

Finish(k) ==
  /\ procs' = RemoveAt(procs, k)
  /\ running' = IF procs[k].mounted THEN FALSE ELSE running

Goto_Stay(k, pc, i) ==
  /\ procs' = procs
  /\ UNCHANGED running

Goto(k, pc, i) ==
  /\ procs' = [procs EXCEPT ![k].pc = pc, ![k].i = i]
  /\ UNCHANGED running

ScenarioTarget(kind) ==
  CASE kind = "ato" -> USER_001
    [] kind = "phishing" -> USER_002
    [] kind = "simswap" -> USER_002
    [] kind = "insider" -> USER_003
    [] OTHER -> USER_001

FirstPc(kind) == IF kind = "ato" THEN "attempt" ELSE IF kind = "aml" THEN "smurf" ELSE "phase1"

(* The Launch buttons are disabled while `running` of the mounted instance is set. *)
Launch(kind, maxProcs, maxAlerts) ==
  /\ activeTab = "attack-sim"
  /\ ~running
  /\ Len(procs) < maxProcs
  /\ Len(state.fraudAlerts) < maxAlerts
  /\ LET found == IF kind = "aml"
                    THEN /\ FindIdx(state.accounts, LAMBDA a : a.userId = USER_001) # 0
                         /\ FindIdx(state.accounts, LAMBDA a : a.userId = USER_003) # 0
                         /\ FindIdx(state.accounts, LAMBDA a : a.userId = USER_MULE) # 0
                    ELSE FindIdx(state.users, LAMBDA u : u.id = ScenarioTarget(kind)) # 0
     IN IF found
          THEN /\ running' = TRUE
               /\ procs' = Append(procs, Proc(kind, FirstPc(kind)))
          ELSE /\ running' = FALSE
               /\ UNCHANGED procs
  /\ last' = Step("launch", kind, "scenario", Allow, "")
  /\ UNCHANGED <<state, epoch, now, activeTab, mfaRequired, pendingTransfer>>
  /\ Observe

(* A transfer issued by a scenario against its snapshot *)
ScenarioRisk(p, fromAcc, toAcc, amount, ctx) == evaluateTransactionRisk(TxPartial(fromAcc, toAcc, amount, ctx), p.snap)
ScenarioGate(p, fromAcc, amount, ctx, riskScore) ==
  checkSecurityControls("transaction", p.snap,
     [userId |-> fromAcc.userId, ip |-> ctx.ip, amount |-> amount, riskScore |-> riskScore], now)

----------------------------------------------------------------------------
(* runAccountTakeover *)
AtoCtx == [ip |-> "203.0.113.42", device |-> "Tor Browser/Unknown", geo |-> "Moscow, RU"]

runAccountTakeover(k, ctx) ==
  /\ k \in 1..Len(procs)
  /\ procs[k].kind = "ato"
  /\ LET p == procs[k]
         targetUser == SnapUser(p, USER_001)
     IN
     IF p.pc = "attempt" THEN
       LET secCheck == checkSecurityControls("login", p.snap,
                          [userId |-> targetUser.id, ip |-> ctx.ip, amount |-> 0, riskScore |-> 0], now)
           loginLog == MkLoginLog(generateId(state.loginLogs), targetUser, ctx.ip, ctx.device, ctx.geo, FALSE, ~secCheck.allowed, secCheck.reason)
       IN /\ ctx.ip \in randomIP(FALSE) /\ ctx.device \in randomDevice(FALSE) /\ ctx.geo \in randomGeo(FALSE)
          /\ state' = [state EXCEPT
                         !.users = FailLogin(@, state.securityControls, targetUser.id, now),
                         !.loginLogs = Append(@, loginLog),
                         !.fraudAlerts = Append(@, MkAlert(generateId(state.fraudAlerts), NULL, loginLog.id, "login", "high"))]
          /\ IF p.i = 4 THEN Goto(k, "phase2", 0) ELSE Goto(k, "attempt", p.i + 1)
          /\ last' = Step("login", "failed", "scenario", secCheck, ctx.ip)
     ELSE IF p.pc = "phase2" THEN
       LET successLogin == MkLoginLog(generateId(state.loginLogs), targetUser, AtoCtx.ip, AtoCtx.device, AtoCtx.geo, TRUE, FALSE, NoReason)
       IN /\ state' = [state EXCEPT
                         !.loginLogs = Append(@, successLogin),
                         !.fraudAlerts = Append(@, MkAlert(generateId(state.fraudAlerts), NULL, successLogin.id, "login", "critical"))]
          /\ Goto(k, "phase3", 0)
          /\ last' = Step("login", "success", "scenario", Allow, AtoCtx.ip)
     ELSE
       /\ IF SnapHasAcc(p, USER_001) /\ SnapHasAcc(p, USER_MULE) THEN
            LET fromAcc == SnapAcc(p, USER_001)
                muleAcc == SnapAcc(p, USER_MULE)
                amount == 45000
                risk == ScenarioRisk(p, fromAcc, muleAcc, amount, AtoCtx)
                secCheck == ScenarioGate(p, fromAcc, amount, AtoCtx, risk.riskScore)
                txStatus == IF ~secCheck.allowed THEN "blocked" ELSE IF risk.isFlagged THEN "flagged" ELSE "completed"
                tx == MkTx(generateId(state.transactions), fromAcc, muleAcc, amount, AtoCtx, txStatus, risk.riskScore, TRUE,
                           Append(risk.reasons, "ATO attack pattern"), "pending", "Account Takeover")
            IN /\ state' = [state EXCEPT
                              !.accounts = MoveUnlessBlocked(@, txStatus, fromAcc.id, muleAcc.id, amount),
                              !.transactions = Append(@, tx),
                              !.fraudAlerts = Append(@, MkAlert(generateId(state.fraudAlerts), tx.id, NULL, "transaction", "critical"))]
               /\ last' = Step("transfer", txStatus, "scenario", secCheck, AtoCtx.ip)
          ELSE /\ last' = Step("phase", "", "scenario", Allow, "")
               /\ UNCHANGED state
       /\ Finish(k)
  /\ UNCHANGED <<epoch, now, activeTab, mfaRequired, pendingTransfer>>
  /\ Observe

----------------------------------------------------------------------------
(* runPhishing *)
PhishLoginCtx == [ip |-> "45.33.32.156", device |-> "Chrome/Android", geo |-> "Lagos, NG"]
PhishCtx == [ip |-> "91.132.147.5", device |-> "Unknown/Linux", geo |-> "Beijing, CN"]

runPhishing(k) ==
  /\ k \in 1..Len(procs)
  /\ procs[k].kind = "phishing"
  /\ LET p == procs[k]
         targetUser == SnapUser(p, USER_002)
     IN
     IF p.pc \in {"phase1", "phase2"} THEN
       LET c == IF p.pc = "phase1" THEN PhishLoginCtx ELSE PhishCtx
           loginLog == MkLoginLog(generateId(state.loginLogs), targetUser, c.ip, c.device, c.geo, TRUE, FALSE, NoReason)
       IN /\ state' = [state EXCEPT
                         !.loginLogs = Append(@, loginLog),
                         !.fraudAlerts = Append(@, MkAlert(generateId(state.fraudAlerts), NULL, loginLog.id, "login", "critical"))]
          /\ Goto(k, IF p.pc = "phase1" THEN "phase2" ELSE "phase3", 0)
          /\ last' = Step("login", "success", "scenario", Allow, c.ip)
     ELSE
       /\ IF SnapHasAcc(p, USER_002) /\ SnapHasAcc(p, USER_MULE) THEN
            LET fromAcc == SnapAcc(p, USER_002)
                muleAcc == SnapAcc(p, USER_MULE)
                amount == 80000
                risk == ScenarioRisk(p, fromAcc, muleAcc, amount, PhishCtx)
                secCheck == ScenarioGate(p, fromAcc, amount, PhishCtx, risk.riskScore)
                txStatus == IF ~secCheck.allowed THEN "blocked" ELSE "flagged"
                tx == MkTx(generateId(state.transactions), fromAcc, muleAcc, amount, PhishCtx, txStatus, Min(risk.riskScore + 20, 100), TRUE,
                           risk.reasons \o <<"Phishing attack", "Session hijacking">>, "pending", "Phishing Fraud")
            IN /\ state' = [state EXCEPT
                              !.transactions = Append(@, tx),
                              !.fraudAlerts = Append(@, MkAlert(generateId(state.fraudAlerts), tx.id, NULL, "transaction", "critical"))]
               /\ last' = Step("transfer", txStatus, "scenario", secCheck, PhishCtx.ip)
          ELSE /\ last' = Step("phase", "", "scenario", Allow, "")
               /\ UNCHANGED state
       /\ Finish(k)
  /\ UNCHANGED <<epoch, now, activeTab, mfaRequired, pendingTransfer>>
  /\ Observe

----------------------------------------------------------------------------
(* runMoneyLaundering *)
smallAmounts == <<4800, 4500, 4900, 3200, 4700, 3800, 4100, 4600>>

runMoneyLaundering(k, ctx, layerCtx) ==
  /\ k \in 1..Len(procs)
  /\ procs[k].kind = "aml"
  /\ LET p == procs[k]
         sourceAcc == SnapAcc(p, USER_001)
         midAcc == SnapAcc(p, USER_003)
         muleAcc == SnapAcc(p, USER_MULE)
     IN
     IF p.pc = "smurf" THEN
       LET amount == smallAmounts[p.i + 1]
           risk == ScenarioRisk(p, sourceAcc, midAcc, amount, ctx)
           adjustedRisk == Min(risk.riskScore + (IF p.i >= 3 THEN 25 ELSE 0), 100)
           reasons == IF p.i >= 3 THEN Append(risk.reasons, "Smurfing") ELSE risk.reasons
           txStatus == IF adjustedRisk >= 40 THEN "flagged" ELSE "completed"
           tx == MkTx(generateId(state.transactions), sourceAcc, midAcc, amount, ctx, txStatus, adjustedRisk, adjustedRisk >= 40,
                      reasons, IF adjustedRisk >= 40 THEN "pending" ELSE "null", "Money Laundering - Smurfing")
       IN /\ ctx.ip \in randomIP(TRUE) /\ ctx.device \in randomDevice(TRUE) /\ ctx.geo \in randomGeo(TRUE)
          /\ state' = [state EXCEPT
                         !.accounts = MoveFunds(@, sourceAcc.id, midAcc.id, amount),
                         !.transactions = Append(@, tx),
                         !.fraudAlerts = IF adjustedRisk >= 40
                                           THEN Append(@, MkAlert(generateId(state.fraudAlerts), tx.id, NULL, "pattern", "high"))
                                           ELSE @]
          /\ IF p.i = Len(smallAmounts) - 1 THEN Goto(k, "layer", 0) ELSE Goto(k, "smurf", p.i + 1)
          /\ last' = Step("transfer", txStatus, "scenario", Allow, ctx.ip)
     ELSE
       LET layerAmount == 25000
           layerTx == MkTx(generateId(state.transactions), midAcc, muleAcc, layerAmount, layerCtx, "flagged", 75, TRUE,
                           <<"Layering pattern", "Transfer to new account">>, "pending", "Money Laundering - Layering")
       IN /\ layerCtx.ip \in randomIP(FALSE) /\ layerCtx.device \in randomDevice(FALSE) /\ layerCtx.geo \in randomGeo(FALSE)
          /\ state' = [state EXCEPT
                         !.accounts = MoveFunds(@, midAcc.id, muleAcc.id, layerAmount),
                         !.transactions = Append(@, layerTx),
                         !.fraudAlerts = Append(@, MkAlert(generateId(state.fraudAlerts), layerTx.id, NULL, "pattern", "critical"))]
          /\ last' = Step("transfer", "flagged", "scenario", Allow, layerCtx.ip)
          /\ Finish(k)
  /\ UNCHANGED <<epoch, now, activeTab, mfaRequired, pendingTransfer>>
  /\ Observe

----------------------------------------------------------------------------
(* runSIMSwap *)
SimCtx == [ip |-> "198.51.100.7", device |-> "Chrome/Android", geo |-> "London, UK"]
simAmounts == <<25000, 30000, 15000>>

runSIMSwap(k) ==
  /\ k \in 1..Len(procs)
  /\ procs[k].kind = "simswap"
  /\ LET p == procs[k]
         targetUser == SnapUser(p, USER_002)
     IN
     IF p.pc = "phase1" THEN
       /\ state' = [state EXCEPT !.fraudAlerts = Append(@, MkAlert(generateId(state.fraudAlerts), NULL, NULL, "login", "high"))]
       /\ Goto(k, "phase2", 0)
       /\ last' = Step("phase", "", "scenario", Allow, "")
     ELSE IF p.pc = "phase2" THEN
       LET loginLog == MkLoginLog(generateId(state.loginLogs), targetUser, SimCtx.ip, SimCtx.device, SimCtx.geo, TRUE, FALSE, NoReason)
       IN /\ state' = [state EXCEPT
                         !.loginLogs = Append(@, loginLog),
                         !.fraudAlerts = Append(@, MkAlert(generateId(state.fraudAlerts), NULL, loginLog.id, "login", "critical"))]
          /\ Goto(k, "phase3", 0)
          /\ last' = Step("login", "success", "scenario", Allow, SimCtx.ip)
     ELSE IF p.pc = "phase3" THEN
       /\ IF SnapHasAcc(p, USER_002) /\ SnapHasAcc(p, USER_MULE) THEN Goto(k, "extract", 0) ELSE Finish(k)
       /\ last' = Step("phase", "", "scenario", Allow, "")
       /\ UNCHANGED state
     ELSE
       LET fromAcc == SnapAcc(p, USER_002)
           muleAcc == SnapAcc(p, USER_MULE)
           amount == simAmounts[p.i + 1]
           risk == ScenarioRisk(p, fromAcc, muleAcc, amount, SimCtx)
           secCheck == ScenarioGate(p, fromAcc, amount, SimCtx, risk.riskScore)
           txStatus == IF ~secCheck.allowed THEN "blocked" ELSE "flagged"
           tx == MkTx(generateId(state.transactions), fromAcc, muleAcc, amount, SimCtx, txStatus, Min(risk.riskScore + 15, 100), TRUE,
                      risk.reasons \o <<"SIM swap", "MFA bypass">>, "pending", "SIM Swap Attack")
       IN /\ state' = [state EXCEPT
                         !.transactions = Append(@, tx),
                         !.fraudAlerts = Append(@, MkAlert(generateId(state.fraudAlerts), tx.id, NULL, "transaction", "critical"))]
          /\ IF p.i = Len(simAmounts) - 1 THEN Finish(k) ELSE Goto(k, "extract", p.i + 1)
          /\ last' = Step("transfer", txStatus, "scenario", secCheck, SimCtx.ip)
  /\ UNCHANGED <<epoch, now, activeTab, mfaRequired, pendingTransfer>>
  /\ Observe

----------------------------------------------------------------------------
(* runInsiderThreat *)
InsiderCtx == [ip |-> "10.0.0.55", device |-> "Chrome/Windows", geo |-> "Manila, PH"]
insiderAmounts == <<12000, 8500, 15000, 9800>>

runInsiderThreat(k) ==
  /\ k \in 1..Len(procs)
  /\ procs[k].kind = "insider"
  /\ LET p == procs[k]
         insiderUser == SnapUser(p, USER_003)
     IN
     IF p.pc = "phase1" THEN
       LET loginLog == MkLoginLog(generateId(state.loginLogs), insiderUser, InsiderCtx.ip, InsiderCtx.device, InsiderCtx.geo, TRUE, FALSE, NoReason)
       IN /\ state' = [state EXCEPT !.loginLogs = Append(@, loginLog)]
          /\ procs' = [procs EXCEPT ![k].pc = "phase2", ![k].logId = loginLog.id]
          /\ UNCHANGED running
          /\ last' = Step("login", "success", "scenario", Allow, InsiderCtx.ip)
     ELSE IF p.pc = "phase2" THEN
       /\ state' = [state EXCEPT !.fraudAlerts = Append(@, MkAlert(generateId(state.fraudAlerts), NULL, p.logId, "pattern", "medium"))]
       /\ Goto(k, "phase3", 0)
       /\ last' = Step("phase", "", "scenario", Allow, "")
     ELSE IF p.pc = "phase3" THEN
       /\ IF SnapHasAcc(p, USER_001) /\ SnapHasAcc(p, USER_MULE) THEN Goto(k, "transfer", 0) ELSE Finish(k)
       /\ last' = Step("phase", "", "scenario", Allow, "")
       /\ UNCHANGED state
     ELSE IF p.pc = "transfer" THEN
       LET victimAcc == SnapAcc(p, USER_001)
           muleAcc == SnapAcc(p, USER_MULE)
           amount == insiderAmounts[p.i + 1]
           risk == ScenarioRisk(p, victimAcc, muleAcc, amount, InsiderCtx)
           txStatus == IF risk.riskScore >= 40 THEN "flagged" ELSE "completed"
           tx == MkTx(generateId(state.transactions), victimAcc, muleAcc, amount, InsiderCtx, txStatus, risk.riskScore,
                      risk.riskScore >= 40 \/ p.i >= 2,
                      IF p.i >= 2 THEN risk.reasons \o <<"Insider threat", "Unauthorized transfers">> ELSE risk.reasons,
                      IF risk.riskScore >= 40 THEN "pending" ELSE "null", "Insider Threat")
       IN /\ state' = [state EXCEPT
                         !.transactions = Append(@, tx),
                         !.fraudAlerts = IF p.i >= 2
                                           THEN Append(@, MkAlert(generateId(state.fraudAlerts), tx.id, NULL, "pattern", IF p.i >= 3 THEN "critical" ELSE "high"))
                                           ELSE @]
          /\ IF p.i = Len(insiderAmounts) - 1 THEN Goto(k, "phase4", 0) ELSE Goto(k, "transfer", p.i + 1)
          /\ last' = Step("transfer", txStatus, "scenario", Allow, InsiderCtx.ip)
     ELSE
       /\ state' = [state EXCEPT !.fraudAlerts = Append(@, MkAlert(generateId(state.fraudAlerts), NULL, NULL, "pattern", "critical"))]
       /\ last' = Step("phase", "", "scenario", Allow, "")
       /\ Finish(k)
  /\ UNCHANGED <<epoch, now, activeTab, mfaRequired, pendingTransfer>>
  /\ Observe

----------------------------------------------------------------------------
(* CoreBanking.handleLogin *)
handleLogin(username, password, ctx, maxLogs) ==
  /\ activeTab = "banking"
  /\ username # ""
  /\ Len(password) > 0
  /\ LET ui == FindIdx(state.users, LAMBDA u : u.username = username)
         user == state.users[ui]
         secCheck == checkSecurityControls("login", state, [userId |-> user.id, ip |-> ctx.ip, amount |-> 0, riskScore |-> 0], now)
         success == verifyHash(password, user.passwordHash)
         isNewIP == ctx.ip \notin user.knownIPs
         isNewDevice == ctx.device \notin user.knownDevices
     IN
     IF ui = 0 THEN
          /\ last' = Step("login", "not-found", "user", Allow, ctx.ip)
          /\ UNCHANGED state
     ELSE IF ~secCheck.allowed THEN
          /\ Len(state.loginLogs) < maxLogs
          /\ state' = [state EXCEPT !.loginLogs = Append(@,
                         MkLoginLog(generateId(state.loginLogs), user, ctx.ip, ctx.device, ctx.geo, FALSE, TRUE, secCheck.reason))]
          /\ last' = Step("login", "blocked", "user", secCheck, ctx.ip)
     ELSE IF success THEN
          /\ Len(state.loginLogs) < maxLogs
          /\ state' = [state EXCEPT
                         !.users = MapSeq(@, LAMBDA u : IF u.id = user.id
                                      THEN [u EXCEPT !.failedLoginAttempts = 0, !.isLocked = FALSE, !.lockoutUntil = NULL]
                                      ELSE u),
                         !.loginLogs = Append(@, MkLoginLog(generateId(state.loginLogs), user, ctx.ip, ctx.device, ctx.geo, TRUE, FALSE, NoReason)),
                         !.fraudAlerts = IF isNewIP \/ isNewDevice
                                           THEN Append(@, MkAlert(generateId(state.fraudAlerts), NULL, generateId(state.loginLogs), "login",
                                                                  IF isNewIP /\ isNewDevice THEN "high" ELSE "medium"))
                                           ELSE @]
          /\ last' = Step("login", "success", "user", secCheck, ctx.ip)
     ELSE
          /\ Len(state.loginLogs) < maxLogs
          /\ state' = [state EXCEPT
                         !.users = FailLogin(@, state.securityControls, user.id, now),
                         !.loginLogs = Append(@, MkLoginLog(generateId(state.loginLogs), user, ctx.ip, ctx.device, ctx.geo, FALSE, FALSE, NoReason))]
          /\ last' = Step("login", "failed", "user", secCheck, ctx.ip)
  /\ UNCHANGED <<epoch, now, activeTab, mfaRequired, pendingTransfer, running, procs>>
  /\ Observe

(* CoreBanking.handleRegister.  badChars tells whether some field holds one  *)
(* of the characters validateInput rejects.                                  *)
validateInput(nonEmpty, badChars) == nonEmpty /\ ~badChars

handleRegister_NoDuplicateCheck(username, password, badChars, ip, device, accountNumber, maxUsers) ==
  /\ activeTab = "banking"
  /\ ip \in randomIP(TRUE) /\ device \in randomDevice(TRUE)
  /\ IF ~validateInput(username # "" /\ Len(password) > 0, badChars)
        \/ Len(password) < 6
       THEN /\ last' = Step("register", "rejected", "user", Allow, "")
            /\ UNCHANGED state
       ELSE /\ Len(state.users) < maxUsers
            /\ state' = [state EXCEPT
                  !.users = Append(@, [id |-> generateId(state.users), username |-> username, passwordHash |-> simpleHash(password),
                                       isLocked |-> FALSE, lockoutUntil |-> NULL, failedLoginAttempts |-> 0,
                                       knownIPs |-> {ip}, knownDevices |-> {device}, accountAge |-> 0]),
                  !.accounts = Append(@, [id |-> generateId(state.accounts), userId |-> generateId(state.users), accountNumber |-> accountNumber,
                                          balance |-> 50000, dailyTransferred |-> 0, dailyTransferDate |-> NULL, isFrozen |-> FALSE])]
            /\ last' = Step("register", "created", "user", Allow, "")
  /\ UNCHANGED <<epoch, now, activeTab, mfaRequired, pendingTransfer, running, procs>>
  /\ Observe

handleRegister(username, password, badChars, ip, device, accountNumber, maxUsers) ==
  /\ activeTab = "banking"
  /\ ip \in randomIP(TRUE) /\ device \in randomDevice(TRUE)
  /\ IF ~validateInput(username # "" /\ Len(password) > 0, badChars)
        \/ Len(password) < 6
        \/ FindIdx(state.users, LAMBDA u : u.username = username) # 0
       THEN /\ last' = Step("register", "rejected", "user", Allow, "")
            /\ UNCHANGED state
       ELSE /\ Len(state.users) < maxUsers
            /\ state' = [state EXCEPT
                  !.users = Append(@, [id |-> generateId(state.users), username |-> username, passwordHash |-> simpleHash(password),
                                       isLocked |-> FALSE, lockoutUntil |-> NULL, failedLoginAttempts |-> 0,
                                       knownIPs |-> {ip}, knownDevices |-> {device}, accountAge |-> 0]),
                  !.accounts = Append(@, [id |-> generateId(state.accounts), userId |-> generateId(state.users), accountNumber |-> accountNumber,
                                          balance |-> 50000, dailyTransferred |-> 0, dailyTransferDate |-> NULL, isFrozen |-> FALSE])]
            /\ last' = Step("register", "created", "user", Allow, "")
  /\ UNCHANGED <<epoch, now, activeTab, mfaRequired, pendingTransfer, running, procs>>
  /\ Observe

----------------------------------------------------------------------------
(* DefensiveControls *)
toggleControl(c) ==
  /\ activeTab = "defenses"
  /\ state' = [state EXCEPT !.securityControls[c].enabled = ~@]
  /\ last' = Step("toggle", c, "user", Allow, "")
  /\ UNCHANGED <<epoch, now, activeTab, mfaRequired, pendingTransfer, running, procs>>
  /\ Observe

ConfigKeys(c) ==
  CASE c = "rate_limiting" -> {"maxAttemptsPerMinute"}
    [] c = "lockout" -> {"maxFailedAttempts", "lockoutDurationMinutes"}
    [] c = "mfa" -> {"riskThreshold"}
    [] c = "transaction_limit" -> {"dailyLimit"}
    [] c = "step_up_auth" -> {"amountThreshold", "riskThreshold"}
    [] OTHER -> {}

updateConfig(c, key, value) ==
  /\ activeTab = "defenses"
  /\ key \in ConfigKeys(c)
  /\ state.securityControls[c].enabled
  /\ state' = [state EXCEPT !.securityControls[c] = [@ EXCEPT ![key] = value]]
  /\ last' = Step("config", c, "user", Allow, "")
  /\ UNCHANGED <<epoch, now, activeTab, mfaRequired, pendingTransfer, running, procs>>
  /\ Observe

addBlacklistIP(ip) ==
  /\ activeTab = "defenses"
  /\ IF ip # "" /\ ip \notin state.blacklistedIPs
       THEN state' = [state EXCEPT !.blacklistedIPs = @ \cup {ip}]
       ELSE UNCHANGED state
  /\ last' = Step("blacklist-add", "", "user", Allow, ip)
  /\ UNCHANGED <<epoch, now, activeTab, mfaRequired, pendingTransfer, running, procs>>
  /\ Observe

removeBlacklistIP(ip) ==
  /\ activeTab = "defenses"
  /\ ip \in state.blacklistedIPs
  /\ state' = [state EXCEPT !.blacklistedIPs = @ \ {ip}]
  /\ last' = Step("blacklist-remove", "", "user", Allow, ip)
  /\ UNCHANGED <<epoch, now, activeTab, mfaRequired, pendingTransfer, running, procs>>
  /\ Observe

(* The Unlock button is listed for the users with isLocked set. *)
unlockUser(userId) ==
  /\ activeTab = "defenses"
  /\ \E k \in 1..Len(state.users) : state.users[k].id = userId /\ state.users[k].isLocked
  /\ state' = [state EXCEPT !.users = MapSeq(@, LAMBDA u : IF u.id = userId
                     THEN [u EXCEPT !.isLocked = FALSE, !.lockoutUntil = NULL, !.failedLoginAttempts = 0]
                     ELSE u)]
  /\ last' = Step("unlock", "", "user", Allow, "")
  /\ UNCHANGED <<epoch, now, activeTab, mfaRequired, pendingTransfer, running, procs>>
  /\ Observe

----------------------------------------------------------------------------
(* AnalystDashboard.handleAction.  The review panel opens only for an alert  *)
(* that is open or investigating.                                            *)
AnalystActions == {"approve", "deny", "escalate", "false_positive", "freeze"}

handleAction_AnyStatus(alertId, action) ==
  /\ activeTab = "dashboard"
  /\ action \in AnalystActions
  /\ LET ai == FindIdx(state.fraudAlerts, LAMBDA a : a.id = alertId)
         alert == state.fraudAlerts[ai]
         txi == FindIdx(state.transactions, LAMBDA t : t.id = alert.transactionId)
     IN /\ ai # 0
        /\ state' = [state EXCEPT
              !.fraudAlerts = MapSeq(@, LAMBDA a : IF a.id = alertId
                    THEN [a EXCEPT !.status = IF action = "escalate" THEN "investigating"
                                              ELSE IF action = "false_positive" THEN "false_positive" ELSE "resolved",
                                   !.assignedTo = IF action = "escalate" THEN "Senior Analyst" ELSE "Analyst"]
                    ELSE a),
              !.transactions = IF alert.transactionId # NULL
                    THEN MapSeq(@, LAMBDA t : IF t.id = alert.transactionId
                           THEN [t EXCEPT !.reviewStatus = IF action = "approve" THEN "approved"
                                                           ELSE IF action = "deny" THEN "denied"
                                                           ELSE IF action = "false_positive" THEN "approved" ELSE @,
                                          !.reviewedBy = "Analyst", !.reviewNote = action]
                           ELSE t)
                    ELSE @,
              !.accounts = IF action = "freeze" /\ alert.transactionId # NULL /\ txi # 0
                    THEN MapSeq(@, LAMBDA a : IF a.userId = state.transactions[txi].fromUserId
                                                THEN [a EXCEPT !.isFrozen = TRUE] ELSE a)
                    ELSE @]
  /\ last' = Step("analyst", action, "user", Allow, "")
  /\ UNCHANGED <<epoch, now, activeTab, mfaRequired, pendingTransfer, running, procs>>
  /\ Observe

handleAction_EscalateMarks(alertId, action) ==
  /\ activeTab = "dashboard"
  /\ action \in AnalystActions
  /\ LET ai == FindIdx(state.fraudAlerts, LAMBDA a : a.id = alertId)
         alert == state.fraudAlerts[ai]
         txi == FindIdx(state.transactions, LAMBDA t : t.id = alert.transactionId)
     IN /\ ai # 0
        /\ alert.status \in {"open", "investigating"}
        /\ state' = [state EXCEPT
              !.fraudAlerts = MapSeq(@, LAMBDA a : IF a.id = alertId
                    THEN [a EXCEPT !.status = IF action = "escalate" THEN "investigating"
                                              ELSE IF action = "false_positive" THEN "false_positive" ELSE "resolved",
                                   !.assignedTo = IF action = "escalate" THEN "Senior Analyst" ELSE "Analyst"]
                    ELSE a),
              !.transactions = IF alert.transactionId # NULL
                    THEN MapSeq(@, LAMBDA t : IF t.id = alert.transactionId
                           THEN [t EXCEPT !.reviewStatus = IF action = "approve" THEN "approved"
                                                           ELSE IF action = "deny" THEN "denied"
                                                           ELSE IF action = "false_positive" THEN "approved" ELSE "escalated",
                                          !.reviewedBy = "Analyst", !.reviewNote = action]
                           ELSE t)
                    ELSE @,
              !.accounts = IF action = "freeze" /\ alert.transactionId # NULL /\ txi # 0
                    THEN MapSeq(@, LAMBDA a : IF a.userId = state.transactions[txi].fromUserId
                                                THEN [a EXCEPT !.isFrozen = TRUE] ELSE a)
                    ELSE @]
  /\ last' = Step("analyst", action, "user", Allow, "")
  /\ UNCHANGED <<epoch, now, activeTab, mfaRequired, pendingTransfer, running, procs>>
  /\ Observe

handleAction(alertId, action) ==
  /\ activeTab = "dashboard"
  /\ action \in AnalystActions
  /\ LET ai == FindIdx(state.fraudAlerts, LAMBDA a : a.id = alertId)
         alert == state.fraudAlerts[ai]
         txi == FindIdx(state.transactions, LAMBDA t : t.id = alert.transactionId)
     IN /\ ai # 0
        /\ alert.status \in {"open", "investigating"}
        /\ state' = [state EXCEPT
              !.fraudAlerts = MapSeq(@, LAMBDA a : IF a.id = alertId
                    THEN [a EXCEPT !.status = IF action = "escalate" THEN "investigating"
                                              ELSE IF action = "false_positive" THEN "false_positive" ELSE "resolved",
                                   !.assignedTo = IF action = "escalate" THEN "Senior Analyst" ELSE "Analyst"]
                    ELSE a),
              !.transactions = IF alert.transactionId # NULL
                    THEN MapSeq(@, LAMBDA t : IF t.id = alert.transactionId
                           THEN [t EXCEPT !.reviewStatus = IF action = "approve" THEN "approved"
                                                           ELSE IF action = "deny" THEN "denied"
                                                           ELSE IF action = "false_positive" THEN "approved" ELSE @,
                                          !.reviewedBy = "Analyst", !.reviewNote = action]
                           ELSE t)
                    ELSE @,
              !.accounts = IF action = "freeze" /\ alert.transactionId # NULL /\ txi # 0
                    THEN MapSeq(@, LAMBDA a : IF a.userId = state.transactions[txi].fromUserId
                                                THEN [a EXCEPT !.isFrozen = TRUE] ELSE a)
                    ELSE @]
  /\ last' = Step("analyst", action, "user", Allow, "")
  /\ UNCHANGED <<epoch, now, activeTab, mfaRequired, pendingTransfer, running, procs>>
  /\ Observe

----------------------------------------------------------------------------
(* Inputs *)
CtxHome == [ip |-> "10.0.0.55", device |-> "Chrome/Windows", geo |-> "Manila, PH"]
CtxForeign == [ip |-> "203.0.113.42", device |-> "Tor Browser/Unknown", geo |-> "Moscow, RU"]
CtxListed == [ip |-> "91.132.147.5", device |-> "Unknown/Linux", geo |-> "Beijing, CN"]
CtxFamiliar == [ip |-> "192.168.1.100", device |-> "Firefox/MacOS", geo |-> "Cebu, PH"]

Kinds == {"ato", "phishing", "aml", "simswap", "insider"}

RECURSIVE SumFrom(_, _)
SumFrom(accounts, k) == IF k > Len(accounts) THEN 0 ELSE accounts[k].balance + SumFrom(accounts, k + 1)
SumBalances(st) == SumFrom(st.accounts, 1)

----------------------------------------------------------------------------
(* The application: one customer at the banking view, the analyst, the      *)
(* control panel, account takeover launched from the attack view, Reset.    *)
(* The attack view and the control panel are opened only after the scenario  *)
(* has run to its end; the banking view and the dashboard at any time.      *)
MaxTx == 1              \* transactions a customer records
MaxProcs == 1           \* scenario coroutines in flight at once
MaxAlerts == 1          \* a scenario is launched while fewer alerts are open

Next ==
  \/ \E t \in Tabs : (t \in {"attack-sim", "defenses"} => procs = <<>>) /\ setActiveTab(t)
  \/ handleTransfer("9001234567", "9006660001", 60000, CtxHome, MaxTx)
  \/ handleMFAVerify("123456", CtxHome, MaxTx)
  \/ Launch("ato", MaxProcs, MaxAlerts)
  \/ \E k \in 1..MaxProcs : runAccountTakeover(k, CtxForeign)
  \/ handleRegister("newuser", PW_letmein, FALSE, "10.0.0.55", "Chrome/Windows", "9000000001", MaxUsers)
  \/ toggleControl("transaction_limit")
  \/ handleAction(IdBase + 1, "freeze")
  \/ Reset

Spec == Init /\ [][Next]_vars

(* C1: every step other than a registration and Reset leaves the sum of all  *)
(* account balances unchanged; a registration that creates a user adds one  *)
(* account and 50,000 to the sum.                                            *)
C1_SumOfBalances ==
  [][ IF last'.op = "reset" THEN TRUE
      ELSE IF last'.op = "register" /\ last'.outcome = "created"
        THEN /\ Len(state'.accounts) = Len(state.accounts) + 1
             /\ SumBalances(state') = SumBalances(state) + 50000
      ELSE SumBalances(state') = SumBalances(state) ]_vars

(* a customer transfer and the takeover's transfer have both moved funds *)
C1_Witness ==
  /\ \E k \in 1..Len(state.transactions) :
        state.transactions[k].attackScenario = "null" /\ state.transactions[k].status # "blocked"
  /\ \E k \in 1..Len(state.transactions) :
        state.transactions[k].attackScenario # "null" /\ state.transactions[k].status # "blocked"
  /\ BalanceOf(state, ACC_MULE) = 500 + 60000 + 45000

----------------------------------------------------------------------------
(* A customer sends 60,000 to the mule account from a known or from a       *)
(* listed address, then the attack view is opened and scenarios are run.    *)
AttackMaxTx == 1        \* the customer records a transaction while fewer are recorded
AttackMaxAlerts == 2    \* a scenario is launched while fewer alerts are open

NextAttack ==
  \/ setActiveTab("attack-sim")
  \/ \E ctx \in {CtxHome, CtxListed} : handleTransfer("9001234567", "9006660001", 60000, ctx, AttackMaxTx)
  \/ \E code \in {"123456", "000000"} : handleMFAVerify(code, CtxHome, AttackMaxTx)
  \/ cancelMFA
  \/ \E kind \in Kinds : Launch(kind, MaxProcs, AttackMaxAlerts)
  \/ \E k \in 1..MaxProcs : runAccountTakeover(k, CtxForeign)
  \/ \E k \in 1..MaxProcs : runPhishing(k)
  \/ \E k \in 1..MaxProcs : runMoneyLaundering(k, CtxFamiliar, CtxForeign)
  \/ \E k \in 1..MaxProcs : runSIMSwap(k)
  \/ \E k \in 1..MaxProcs : runInsiderThreat(k)

SpecAttack == Init /\ [][NextAttack]_vars

(* What a step has recorded *)
LastOf(seq) == seq[Len(seq)]
RecordsTx == Len(state'.transactions) = Len(state.transactions) + 1
RecordsLogin == Len(state'.loginLogs) = Len(state.loginLogs) + 1
SameBalances ==
  /\ Len(state'.accounts) = Len(state.accounts)
  /\ \A k \in 1..Len(state.accounts) : state'.accounts[k].balance = state.accounts[k].balance

(* C2: the step that records a transaction as completed or flagged debits   *)
(* the sender and credits the recipient by exactly the amount.              *)
C2_CommittedMovesFunds ==
  [][ (RecordsTx /\ LastOf(state'.transactions).status \in {"completed", "flagged"})
        => LET tx == LastOf(state'.transactions)
           IN /\ BalanceOf(state', tx.fromAccountId) = BalanceOf(state, tx.fromAccountId) - tx.amount
              /\ BalanceOf(state', tx.toAccountId) = BalanceOf(state, tx.toAccountId) + tx.amount ]_vars

(* C3: the step that records a transaction as blocked leaves every balance  *)
(* and every daily-transferred accumulator as they were.                    *)
C3_BlockedLeavesAccounts ==
  [][ (RecordsTx /\ LastOf(state'.transactions).status = "blocked")
        => /\ SameBalances
           /\ \A k \in 1..Len(state.accounts) :
                 state'.accounts[k].dailyTransferred = state.accounts[k].dailyTransferred ]_vars

(* the takeover's transfer was denied by the daily limit after the customer spent 60,000 *)
C3_Witness ==
  /\ last.op = "transfer" /\ last.by = "scenario" /\ last.outcome = "blocked"
  /\ last.gate.reason = "Daily transfer limit exceeded"
  /\ BalanceOf(state, ACC_001) = 150000 - 60000

(* C6: while the transaction limit is enabled and unchanged, no account is  *)
(* debited more than dailyLimit on one calendar day.                        *)
C6_DebitsWithinDailyLimit ==
  state.securityControls["transaction_limit"].enabled
    => \A id \in DOMAIN debited : debited[id] <= state.securityControls["transaction_limit"].dailyLimit

(* C8: a transfer whose gate decision asks for a code changes a balance     *)
(* only in the step that confirms the correct code.                         *)
C8_NoFundsWithoutCode ==
  [][ (last'.op \in {"transfer", "mfa-verify"} /\ last'.gate.requiresMFA /\ ~SameBalances)
        => last'.op = "mfa-verify" ]_vars

(* C9: while the blacklist is enabled, no login from a listed address is    *)
(* recorded as a success and no transaction from one as other than blocked. *)
C9_ListedAddressDenied ==
  [][ state.securityControls["ip_blacklist"].enabled
        => /\ (RecordsLogin /\ LastOf(state'.loginLogs).ip \in state.blacklistedIPs)
                 => ~LastOf(state'.loginLogs).success
           /\ (RecordsTx /\ LastOf(state'.transactions).ip \in state.blacklistedIPs)
                 => LastOf(state'.transactions).status = "blocked" ]_vars

----------------------------------------------------------------------------
(* The attack view stays open; account takeover and laundering are          *)
(* launched again and again.                                                *)
DrainMaxAlerts == 22    \* a scenario is launched while fewer alerts are open

NextDrain ==
  \/ setActiveTab("attack-sim")
  \/ \E kind \in {"ato", "aml"} : Launch(kind, MaxProcs, DrainMaxAlerts)
  \/ \E k \in 1..MaxProcs : runAccountTakeover(k, CtxForeign)
  \/ \E k \in 1..MaxProcs : runMoneyLaundering(k, CtxFamiliar, CtxForeign)

SpecDrain == Init /\ [][NextDrain]_vars

(* C4: no account balance is negative. *)
C4_BalancesNonNegative ==
  \A k \in 1..Len(state.accounts) : state.accounts[k].balance >= 0

----------------------------------------------------------------------------
(* Leaving the attack view and coming back while a scenario runs.           *)
GuardMaxProcs == 2      \* scenario coroutines in flight at once
GuardMaxAlerts == 1     \* a scenario is launched while fewer alerts are open

NextGuard ==
  \/ \E t \in {"banking", "attack-sim"} : setActiveTab(t)
  \/ Launch("phishing", GuardMaxProcs, GuardMaxAlerts)
  \/ \E k \in 1..GuardMaxProcs : runPhishing(k)

SpecGuard == Init /\ [][NextGuard]_vars

(* C5: at most one scenario is in progress. *)
C5_SingleFlight == Len(procs) <= 1

----------------------------------------------------------------------------
(* One customer at the transfer form over two calendar days.                *)
LimitMaxTx == 3         \* transactions the customer records
LimitMaxDays == 1       \* midnights that pass

NextLimit ==
  \/ \E amt \in {60000, 40000}, ctx \in {CtxHome, CtxListed} :
        handleTransfer("9001234567", "9009876543", amt, ctx, LimitMaxTx)
  \/ \E code \in {"123456", "000000"} : handleMFAVerify(code, CtxHome, LimitMaxTx)
  \/ cancelMFA
  \/ Advance(DayTicks, StartOfRun + LimitMaxDays * DayTicks)

SpecLimit == Init /\ [][NextLimit]_vars

RECURSIVE CommittedFrom(_, _, _, _)
CommittedFrom(txs, k, userId, day) ==
  IF k > Len(txs) THEN 0
  ELSE (IF txs[k].fromUserId = userId /\ txs[k].status # "blocked" /\ toDateString(txs[k].timestamp) = day
          THEN txs[k].amount ELSE 0) + CommittedFrom(txs, k + 1, userId, day)
CommittedToday(st, userId, t) == CommittedFrom(st.transactions, 1, userId, toDateString(t))

AttemptedAmount == IF last'.outcome = "pending" THEN pendingTransfer'.amount ELSE LastOf(state'.transactions).amount

(* C7: with the limit at 100,000, a customer's transfer that passes the     *)
(* form checks and comes from an unlisted address is recorded as blocked    *)
(* with the daily-limit reason exactly when the amount the sender has       *)
(* committed on that day plus the new amount exceeds 100,000.               *)
C7_DailyLimitGate ==
  [][ (/\ last'.op \in {"transfer", "mfa-verify"} /\ last'.by = "user"
       /\ last'.outcome \in {"blocked", "pending", "completed", "flagged"}
       /\ last'.ip \notin state.blacklistedIPs
       /\ state.securityControls["transaction_limit"].enabled
       /\ state.securityControls["transaction_limit"].dailyLimit = 100000)
        => ((last'.outcome = "blocked" /\ last'.gate.reason = "Daily transfer limit exceeded")
              <=> CommittedToday(state, USER_001, now) + AttemptedAmount > 100000) ]_vars

(* two transfers of 60,000 on one day: the first committed, the second blocked by the limit *)
C7_Witness ==
  /\ Len(state.transactions) = 2
  /\ state.transactions[1].amount = 60000 /\ state.transactions[1].status = "completed"
  /\ state.transactions[2].amount = 60000 /\ state.transactions[2].status = "blocked"
  /\ toDateString(state.transactions[1].timestamp) = toDateString(state.transactions[2].timestamp)
  /\ last.gate.reason = "Daily transfer limit exceeded"
  /\ BalanceOf(state, ACC_001) = 150000 - 60000

----------------------------------------------------------------------------
(* One customer at the login form.                                          *)
MaxLogins == 6          \* login attempts recorded
MaxWindows == 1         \* rate-limit windows that pass

NextLogin ==
  \/ \E pw \in {PW_password123, PW_letmein} : handleLogin("jdelacruz", pw, CtxHome, MaxLogins)
  \/ handleLogin("jdelacruz", PW_letmein, CtxListed, MaxLogins)
  \/ Advance(WindowTicks, StartOfRun + MaxWindows * WindowTicks)

SpecLogin == Init /\ [][NextLogin]_vars

LockedByFive(st, userId, t) ==
  LET u == st.users[FindIdx(st.users, LAMBDA x : x.id = userId)]
  IN u.isLocked /\ u.failedLoginAttempts = 5 /\ u.lockoutUntil # NULL /\ t < u.lockoutUntil

RecentLogins(st, userId, t) ==
  Count(st.loginLogs, LAMBDA l : l.userId = userId /\ t - l.timestamp < WindowTicks)

(* C10 as stated: a login attempt for a user locked by 5 failed logins,     *)
(* made before lockoutUntil, is denied with the lockout reason.             *)
C10_LockoutReason ==
  [][ (last'.op = "login" /\ last'.by = "user" /\ LockedByFive(state, USER_001, now))
        => /\ last'.outcome = "blocked"
           /\ last'.gate.reason = "Account locked due to too many failed attempts" ]_vars

(* C10 amended: the attempt is denied before the password is looked at; the *)
(* reason is the lockout unless the address is listed or 5 attempts for the *)
(* user were recorded in the last minute, which the gate reports first.     *)
C10_DeniedBeforePassword ==
  [][ (last'.op = "login" /\ last'.by = "user" /\ LockedByFive(state, USER_001, now))
        => /\ last'.outcome = "blocked"
           /\ ~LastOf(state'.loginLogs).success /\ LastOf(state'.loginLogs).blocked
           /\ state'.users = state.users
           /\ last'.gate.reason =
                 IF last'.ip \in state.blacklistedIPs THEN "IP is blacklisted"
                 ELSE IF RecentLogins(state, USER_001, now) >= 5 THEN "Rate limit exceeded"
                 ELSE "Account locked due to too many failed attempts" ]_vars

(* the sixth attempt, with the right password, was denied with the lockout reason *)
C10_Witness ==
  /\ last.op = "login" /\ last.outcome = "blocked"
  /\ last.gate.reason = "Account locked due to too many failed attempts"
  /\ Len(state.loginLogs) = 6
  /\ LockedByFive(state, USER_001, now)

----------------------------------------------------------------------------
(* One customer at the login form while the lockout control is reconfigured *)
(* on the control panel and account takeover runs against the same user.    *)
LockMaxLogins == 5      \* login attempts the customer records
LockMaxAlerts == 1      \* a scenario is launched while fewer alerts are open
TicksPerMinute == 2

NextLockout ==
  \/ \E t \in {"banking", "defenses", "attack-sim"} : (t # "banking" => procs = <<>>) /\ setActiveTab(t)
  \/ \E pw \in {PW_password123, PW_letmein} : handleLogin("jdelacruz", pw, CtxHome, LockMaxLogins)
  \/ updateConfig("lockout", "maxFailedAttempts", 3)
  \/ updateConfig("lockout", "lockoutDurationMinutes", 30)
  \/ toggleControl("lockout")
  \/ unlockUser(USER_001)
  \/ Launch("ato", MaxProcs, LockMaxAlerts)
  \/ \E k \in 1..MaxProcs : runAccountTakeover(k, CtxForeign)

SpecLockout == Init /\ [][NextLockout]_vars

UserOf(st, userId) == st.users[FindIdx(st.users, LAMBDA u : u.id = userId)]

(* the step records a login that failed at the password check *)
RecordsWrongPassword ==
  /\ RecordsLogin
  /\ ~LastOf(state'.loginLogs).success
  /\ ~LastOf(state'.loginLogs).blocked

(* C11: with the lockout control enabled and maxFailedAttempts = N, a login *)
(* that fails at the password check adds exactly 1 to the user's            *)
(* failedLoginAttempts, and the user is locked with lockoutUntil set        *)
(* exactly when the count has reached N; a count below N leaves the user    *)
(* unlocked.                                                                *)
C11_LockAtNth ==
  [][ (RecordsWrongPassword /\ state.securityControls["lockout"].enabled)
        => LET N == state.securityControls["lockout"].maxFailedAttempts
               id == LastOf(state'.loginLogs).userId
               u == UserOf(state, id)
               v == UserOf(state', id)
           IN /\ v.failedLoginAttempts = u.failedLoginAttempts + 1
              /\ v.isLocked <=> v.failedLoginAttempts >= N
              /\ (v.lockoutUntil # NULL) <=> v.failedLoginAttempts >= N
              /\ u.failedLoginAttempts < N => ~LockedOut(state, id, now) ]_vars

(* the third wrong password in a row locked the customer after the maximum was lowered to 3 *)
C11_Witness ==
  /\ state.securityControls["lockout"].enabled
  /\ state.securityControls["lockout"].maxFailedAttempts = 3
  /\ Len(state.loginLogs) = 3
  /\ \A k \in 1..3 : ~state.loginLogs[k].success /\ ~state.loginLogs[k].blocked
  /\ UserOf(state, USER_001).failedLoginAttempts = 3
  /\ UserOf(state, USER_001).isLocked
  /\ UserOf(state, USER_001).lockoutUntil = now + LockTicks

(* C12: the step in which a failed login locks a user sets lockoutUntil to  *)
(* the current time plus the lockoutDurationMinutes the lockout control     *)
(* holds at that moment.                                                    *)
C12_ConfiguredDuration ==
  [][ (RecordsLogin /\ ~LastOf(state'.loginLogs).success
         /\ ~UserOf(state, LastOf(state'.loginLogs).userId).isLocked
         /\ UserOf(state', LastOf(state'.loginLogs).userId).isLocked)
        => UserOf(state', LastOf(state'.loginLogs).userId).lockoutUntil
             = now + state.securityControls["lockout"].lockoutDurationMinutes * TicksPerMinute ]_vars

(* login attempts recorded for the user of log i, not blocked, in the 60 s that start with log i *)
UnblockedInWindow(st, i) ==
  Count(st.loginLogs, LAMBDA l : /\ l.userId = st.loginLogs[i].userId
                                 /\ ~l.blocked
                                 /\ l.timestamp >= st.loginLogs[i].timestamp
                                 /\ l.timestamp < st.loginLogs[i].timestamp + WindowTicks)

(* C13: with rate limiting enabled at maxAttemptsPerMinute = N, no user has *)
(* more than N login attempts that were not blocked in any 60-second        *)
(* window, whoever made them.                                               *)
C13_AttemptsPerWindow ==
  state.securityControls["rate_limiting"].enabled
    => \A i \in 1..Len(state.loginLogs) :
          UnblockedInWindow(state, i) <= state.securityControls["rate_limiting"].maxAttemptsPerMinute

(* C14: while the lockout control is enabled and the target of the account  *)
(* takeover is locked with lockoutUntil ahead, the gate of a credential-    *)
(* stuffing attempt denies, and no login of the scenario is recorded as     *)
(* successful and not blocked.                                              *)
C14_TakeoverSeesLock ==
  [][ (/\ last'.by = "scenario" /\ last'.op = "login" /\ RecordsLogin
       /\ \A k \in 1..Len(procs) : procs[k].kind = "ato"
       /\ state.securityControls["lockout"].enabled
       /\ LockedOut(state, LastOf(state'.loginLogs).userId, now))
        => /\ ~last'.gate.allowed
           /\ ~(LastOf(state'.loginLogs).success /\ ~LastOf(state'.loginLogs).blocked) ]_vars

----------------------------------------------------------------------------
(* The gate decision a customer's transfer with the fields of tx gets from  *)
(* the store as it is when the step starts.                                 *)
GateNow(tx) ==
  checkSecurityControls("transaction", state,
     [userId |-> tx.fromUserId, ip |-> tx.ip, amount |-> tx.amount,
      riskScore |-> evaluateTransactionRisk(tx, state).riskScore], now)

GatedScenarios == {"Account Takeover", "Phishing Fraud", "SIM Swap Attack"}

(* C15: the gate decision a scenario uses for a transfer is the decision    *)
(* the controls, blacklist, logs and accounts of that moment give.          *)
C15_GateOnCurrentStore ==
  [][ (RecordsTx /\ last'.by = "scenario" /\ LastOf(state'.transactions).attackScenario \in GatedScenarios)
        => last'.gate = GateNow(LastOf(state'.transactions)) ]_vars

(* C16: a step of a scenario that was launched before the latest Reset      *)
(* leaves the store as the Reset made it.                                   *)
C16_ResetEndsScenario ==
  [][ (/\ last'.by = "scenario" /\ last'.op # "launch"
       /\ procs # <<>>
       /\ \A k \in 1..Len(procs) : procs[k].born < epoch)
        => state' = state ]_vars

(* C17: no step other than Reset lowers the balance of a frozen account.    *)
C17_FrozenKeepsBalance ==
  [][ last'.op # "reset"
        => \A k \in 1..Len(state.accounts) :
              state.accounts[k].isFrozen => state'.accounts[k].balance >= state.accounts[k].balance ]_vars

----------------------------------------------------------------------------
(* One customer at the transfer form, with good and bad requests, and the   *)
(* analyst freezing the sender of a flagged transfer.                       *)
FormMaxTx == 2          \* transactions the customer records

FormFrom == {"9001234567", "9990000000"}
FormTo == {"9006660001", "9009876543", "9001234567", "9990000001"}
FormAmounts == {0, 40000, 60000, 200000}
FormCtx == {CtxHome, CtxForeign}
FormCodes == {"123456", "000000"}

NextForm ==
  \/ \E t \in {"banking", "dashboard"} : setActiveTab(t)
  \/ \E from \in FormFrom, to \in FormTo, amt \in FormAmounts, ctx \in FormCtx :
        handleTransfer(from, to, amt, ctx, FormMaxTx)
  \/ \E code \in FormCodes, ctx \in FormCtx : handleMFAVerify(code, ctx, FormMaxTx)
  \/ cancelMFA
  \/ handleAction(IdBase + 1, "freeze")

SpecForm == Init /\ [][NextForm]_vars

AccountByNumber(st, number) == FindIdx(st.accounts, LAMBDA a : a.accountNumber = number)

(* unknown source or destination, frozen source, amount above the source    *)
(* balance, source equal to destination, or amount <= 0                     *)
FailsValidation(st, from, to, amt) ==
  \/ AccountByNumber(st, from) = 0
  \/ AccountByNumber(st, to) = 0
  \/ st.accounts[AccountByNumber(st, from)].isFrozen
  \/ amt > st.accounts[AccountByNumber(st, from)].balance
  \/ from = to
  \/ amt <= 0

(* C18: a transfer request of the customer that fails validation leaves     *)
(* accounts, transactions, alerts, login logs and users as they were and    *)
(* no step-up is pending after it: a step either has these effects only, or *)
(* it is not the handling of a request that fails validation.               *)
C18_InvalidRequestNoEffect ==
  [][ \/ /\ state'.accounts = state.accounts
         /\ state'.transactions = state.transactions
         /\ state'.fraudAlerts = state.fraudAlerts
         /\ state'.loginLogs = state.loginLogs
         /\ state'.users = state.users
         /\ ~mfaRequired'
         /\ pendingTransfer' = pendingTransfer
      \/ ~\E from \in FormFrom, to \in FormTo, amt \in FormAmounts, ctx \in FormCtx :
            FailsValidation(state, from, to, amt) /\ handleTransfer(from, to, amt, ctx, FormMaxTx) ]_vars

(* a request was rejected while the source account is frozen and holds the rest of its funds *)
C18_Witness ==
  /\ last.op = "transfer" /\ last.outcome = "rejected"
  /\ state.accounts[AccountByNumber(state, "9001234567")].isFrozen
  /\ BalanceOf(state, ACC_001) = 150000 - 60000
  /\ Len(state.transactions) = 1
  /\ ~mfaRequired

(* C19: a customer's transfer whose gate decision allows it and asks for a  *)
(* code only becomes pending: the store is left as it was (no transaction,  *)
(* balance, daily accumulator or alert changes) and the request is kept as  *)
(* the pending transfer.  The transaction recorded when the correct code is *)
(* confirmed has the source, destination and amount of the pending one.     *)
C19_PendingThenSameTransfer ==
  [][ /\ (last'.op = "transfer" /\ last'.by = "user" /\ last'.gate.allowed /\ last'.gate.requiresMFA)
          => /\ state' = state
             /\ mfaRequired'
             /\ \E from \in FormFrom, to \in FormTo, amt \in FormAmounts, ctx \in FormCtx :
                   /\ pendingTransfer' = [from |-> from, to |-> to, amount |-> amt]
                   /\ handleTransfer(from, to, amt, ctx, FormMaxTx)
      /\ (RecordsTx /\ \E ctx \in FormCtx : handleMFAVerify("123456", ctx, FormMaxTx))
          => LET tx == LastOf(state'.transactions)
             IN /\ AccountByNumber(state, pendingTransfer.from) # 0
                /\ AccountByNumber(state, pendingTransfer.to) # 0
                /\ tx.fromAccountId = state.accounts[AccountByNumber(state, pendingTransfer.from)].id
                /\ tx.toAccountId = state.accounts[AccountByNumber(state, pendingTransfer.to)].id
                /\ tx.amount = pendingTransfer.amount ]_vars

(* 60,000 to the mule account was held for a code and committed once the code was confirmed *)
C19_Witness ==
  /\ last.op = "mfa-verify" /\ last.outcome = "flagged"
  /\ last.gate.requiresMFA
  /\ Len(state.transactions) = 1
  /\ state.transactions[1].amount = 60000
  /\ state.transactions[1].fromAccountId = ACC_001 /\ state.transactions[1].toAccountId = ACC_MULE
  /\ BalanceOf(state, ACC_MULE) = 500 + 60000
  /\ ~mfaRequired /\ pendingTransfer = NoPending

(* C20: confirming with a code other than 123456 changes nothing in the     *)
(* store and leaves the same transfer pending, with the confirmation still  *)
(* offered.                                                                 *)
C20_WrongCodeKeepsPending ==
  [][ (\E code \in FormCodes \ {"123456"}, ctx \in FormCtx : handleMFAVerify(code, ctx, FormMaxTx))
        => /\ state' = state
           /\ pendingTransfer' = pendingTransfer
           /\ pendingTransfer' # NoPending
           /\ mfaRequired'
           /\ activeTab' = "banking" ]_vars

(* a wrong code was entered for the pending transfer of 60,000 and nothing was recorded *)
C20_Witness ==
  /\ last.op = "mfa-verify" /\ last.outcome = "invalid-code"
  /\ mfaRequired
  /\ pendingTransfer = [from |-> "9001234567", to |-> "9006660001", amount |-> 60000]
  /\ state.transactions = <<>>
  /\ BalanceOf(state, ACC_001) = 150000

----------------------------------------------------------------------------
(* Registration: the register form of CoreBanking, submitted with taken and
   free usernames, short and long passwords, and fields that do or do not
   hold one of the rejected characters. *)
RegMaxUsers == 6

PW_abc == <<97, 98, 99>>

RegUsernames == {"newuser", "alice", "jdelacruz"}
RegPasswords == {PW_letmein, PW_abc}
RegAccountNumbers == {"9001110001", "9001110002"}
RegIPs == {"10.0.0.55", "192.168.1.100"}
RegDevices == {"Chrome/Windows"}

NextRegister ==
  \/ \E username \in RegUsernames, password \in RegPasswords, badChars \in BOOLEAN,
        ip \in RegIPs, device \in RegDevices, accountNumber \in RegAccountNumbers :
       handleRegister(username, password, badChars, ip, device, accountNumber, RegMaxUsers)
  \/ Reset

SpecRegister == Init /\ [][NextRegister]_vars

UsernameTaken(st, username) == \E i \in 1..Len(st.users) : st.users[i].username = username

InvalidRegistration(username, password, badChars) ==
  badChars \/ Len(password) < 6 \/ UsernameTaken(state, username)

AddsOneUserWithAccount(username) ==
  /\ Len(state'.users) = Len(state.users) + 1
  /\ Len(state'.accounts) = Len(state.accounts) + 1
  /\ SubSeq(state'.users, 1, Len(state.users)) = state.users
  /\ SubSeq(state'.accounts, 1, Len(state.accounts)) = state.accounts
  /\ LastOf(state'.users).username = username
  /\ LastOf(state'.accounts).userId = LastOf(state'.users).id
  /\ \A i \in 1..Len(state.users) : state.users[i].id # LastOf(state'.users).id

\* C21: a registration whose fields hold one of the characters <, >, ', ", whose
\* password is shorter than six characters, or whose username is taken leaves
\* users and accounts unchanged; any other registration adds exactly one user
\* and exactly one account owned by that user; usernames are pairwise distinct
\* in every reachable state.
C21_Registration ==
  /\ [](\A i, j \in 1..Len(state.users) : i # j => state.users[i].username # state.users[j].username)
  /\ [][ \/ last'.op # "register"
         \/ \A username \in RegUsernames, password \in RegPasswords, badChars \in BOOLEAN,
               ip \in RegIPs, device \in RegDevices, accountNumber \in RegAccountNumbers :
              handleRegister(username, password, badChars, ip, device, accountNumber, RegMaxUsers) =>
                IF InvalidRegistration(username, password, badChars)
                  THEN state'.users = state.users /\ state'.accounts = state.accounts
                  ELSE AddsOneUserWithAccount(username) ]_vars

C21_Witness ==
  /\ Len(state.users) = Len(seedUsers) + 2
  /\ last.op = "register" /\ last.outcome = "rejected"

----------------------------------------------------------------------------
\* C22: every login recorded with success = true, by the login form or by an
\* attack scenario, leaves that user with failedLoginAttempts = 0,
\* isLocked = false and lockoutUntil = null.
C22_SuccessClearsLock ==
  [][ (RecordsLogin /\ LastOf(state'.loginLogs).success)
        => LET u == UserOf(state', LastOf(state'.loginLogs).userId)
           IN  u.failedLoginAttempts = 0 /\ ~u.isLocked /\ u.lockoutUntil = NULL ]_vars

----------------------------------------------------------------------------
(* The gate as a function: checkSecurityControls applied to the current      *)
(* store for a login or a transaction of jdelacruz, with the six controls    *)
(* toggled in every combination and the user's login history growing up to   *)
(* the lock.  The decision and the parameters it was taken for are recorded. *)
GateMaxLogins == 5

GateActions == {"login", "transaction"}
GateIPs == {"10.0.0.55", "91.132.147.5"}
GateAmounts == {40000, 60000, 120000}
GateRisks == {0, 65, 75}

GateParams ==
  {[userId |-> USER_001, ip |-> ip, amount |-> 0, riskScore |-> 0] : ip \in GateIPs}
  \cup {[userId |-> USER_001, ip |-> ip, amount |-> amount, riskScore |-> riskScore] :
          ip \in GateIPs, amount \in GateAmounts, riskScore \in GateRisks}

securityCheck(action, params) ==
  /\ (action = "login") = (params.amount = 0)
  /\ last' = [op |-> "gate", outcome |-> action, by |-> "caller",
              gate |-> checkSecurityControls(action, state, params, now), ip |-> params.ip, params |-> params]
  /\ UNCHANGED <<state, epoch, now, activeTab, mfaRequired, pendingTransfer, running, procs, debited>>

NextGate ==
  \/ \E t \in {"banking", "defenses"} : setActiveTab(t)
  \/ \E c \in Categories : toggleControl(c)
  \/ handleLogin("jdelacruz", PW_letmein, CtxHome, GateMaxLogins)
  \/ \E action \in GateActions, params \in GateParams : securityCheck(action, params)

SpecGate == Init /\ [][NextGate]_vars

AllControlsDisabled(st) == \A c \in Categories : ~st.securityControls[c].enabled

\* C23: with all six controls disabled, checkSecurityControls returns
\* allowed = true, reason = null and requiresMFA = false for every action,
\* user, IP, amount and risk score.
C23_AllDisabledAllows ==
  (last.op \in {"gate", "login"} /\ AllControlsDisabled(state))
    => last.gate.allowed = TRUE /\ last.gate.reason = NoReason /\ last.gate.requiresMFA = FALSE

C23_Witness ==
  /\ last.op = "gate" /\ last.outcome = "transaction" /\ AllControlsDisabled(state)
  /\ last.params.ip \in state.blacklistedIPs
  /\ last.params.amount > state.securityControls["transaction_limit"].dailyLimit
  /\ last.params.riskScore > state.securityControls["step_up_auth"].riskThreshold

GateReasonOf(c) ==
  CASE c = "ip_blacklist" -> "IP is blacklisted"
    [] c = "rate_limiting" -> "Rate limit exceeded"
    [] c = "lockout" -> "Account locked due to too many failed attempts"
    [] c = "transaction_limit" -> "Daily transfer limit exceeded"
    [] c = "step_up_auth" -> "Step-up authentication required"
    [] c = "mfa" -> "MFA required - risk threshold exceeded"

Trips(c, action, params) ==
  LET ctrl == state.securityControls[c]
  IN  /\ ctrl.enabled
      /\ CASE c = "ip_blacklist" -> params.ip \in state.blacklistedIPs
           [] c = "rate_limiting" ->
                /\ action = "login"
                /\ Cardinality({i \in 1..Len(state.loginLogs) :
                                  /\ state.loginLogs[i].userId = params.userId
                                  /\ now - state.loginLogs[i].timestamp < WindowTicks}) >= ctrl.maxAttemptsPerMinute
           [] c = "lockout" ->
                /\ action = "login"
                /\ \E i \in 1..Len(state.users) :
                     /\ state.users[i].id = params.userId /\ state.users[i].isLocked
                     /\ state.users[i].lockoutUntil # NULL /\ now < state.users[i].lockoutUntil
           [] c = "transaction_limit" ->
                /\ action = "transaction"
                /\ \E i \in 1..Len(state.accounts) :
                     /\ state.accounts[i].userId = params.userId
                     /\ (IF state.accounts[i].dailyTransferDate = toDateString(now)
                           THEN state.accounts[i].dailyTransferred ELSE 0) + params.amount > ctrl.dailyLimit
           [] c = "step_up_auth" ->
                /\ action = "transaction"
                /\ (params.amount > ctrl.amountThreshold \/ params.riskScore > ctrl.riskThreshold)
           [] c = "mfa" -> action = "transaction" /\ params.riskScore > ctrl.riskThreshold

GateOrder == <<"ip_blacklist", "rate_limiting", "lockout", "transaction_limit", "step_up_auth", "mfa">>

\* C26: checkSecurityControls returns the result of the first check that
\* matches, in the order IP blacklist, then (login) rate limit, lockout, or
\* (transaction) daily limit, step-up, MFA; a disabled control never decides
\* the result, and when no enabled check matches the request is allowed.
C26_FirstMatchInOrder ==
  last.op = "gate" =>
    /\ \A k \in 1..Len(GateOrder) :
         (/\ Trips(GateOrder[k], last.outcome, last.params)
          /\ \A j \in 1..(k - 1) : ~Trips(GateOrder[j], last.outcome, last.params))
           => /\ last.gate.reason = GateReasonOf(GateOrder[k])
              /\ last.gate.allowed = (GateOrder[k] \in {"step_up_auth", "mfa"})
              /\ last.gate.requiresMFA = (GateOrder[k] \in {"step_up_auth", "mfa"})
    /\ (\A k \in 1..Len(GateOrder) : ~Trips(GateOrder[k], last.outcome, last.params))
         => last.gate.allowed /\ last.gate.reason = NoReason /\ ~last.gate.requiresMFA
    /\ \A c \in Categories : last.gate.reason = GateReasonOf(c) => state.securityControls[c].enabled

C26_Witness ==
  /\ last.op = "gate" /\ last.outcome = "transaction"
  /\ ~state.securityControls["ip_blacklist"].enabled
  /\ last.params.ip \in state.blacklistedIPs
  /\ Trips("step_up_auth", last.outcome, last.params)
  /\ last.gate.reason = GateReasonOf("transaction_limit")

----------------------------------------------------------------------------
(* The analyst's queue: alerts raised by the phishing scenario, reviewed     *)
(* with every action while the scenario may still be running.                *)
AnalystMaxAlerts == 1
AlertsPerRun == 3

AlertIds == {IdBase + IdsPerEpoch * e + n : e \in 0..MaxResets, n \in 1..AlertsPerRun}

NextAnalyst ==
  \/ \E t \in {"attack-sim", "dashboard"} : (t = "attack-sim" => procs = <<>>) /\ setActiveTab(t)
  \/ Launch("phishing", MaxProcs, AnalystMaxAlerts)
  \/ \E k \in 1..MaxProcs : runPhishing(k)
  \/ \E alertId \in AlertIds, action \in AnalystActions : handleAction(alertId, action)
  \/ Reset

SpecAnalyst == Init /\ [][NextAnalyst]_vars

TerminalStatus == {"resolved", "false_positive"}

\* C24: once an alert's status is resolved or false_positive, nothing changes
\* it again; alerts are created only with status open and are never removed
\* or reordered except by Reset.
C24_TerminalAlertsStay ==
  [][ last'.op # "reset" =>
        /\ Len(state'.fraudAlerts) >= Len(state.fraudAlerts)
        /\ \A i \in 1..Len(state.fraudAlerts) :
             /\ state'.fraudAlerts[i].id = state.fraudAlerts[i].id
             /\ state.fraudAlerts[i].status \in TerminalStatus
                  => state'.fraudAlerts[i].status = state.fraudAlerts[i].status
        /\ \A i \in (Len(state.fraudAlerts) + 1)..Len(state'.fraudAlerts) :
             state'.fraudAlerts[i].status = "open" ]_vars

C24_Witness ==
  /\ last.op = "analyst"
  /\ \E i, j \in 1..Len(state.fraudAlerts) :
       /\ state.fraudAlerts[i].status = "resolved"
       /\ state.fraudAlerts[j].status = "false_positive"
  /\ \E k \in 1..Len(procs) : procs[k].kind = "phishing"

----------------------------------------------------------------------------
(* The number of lines the handler of the step just taken appends to         *)
(* eventLog: one per addLog call or eventLog spread on the path it took.     *)
eventLogLines ==
  CASE last'.op = "toggle" -> 1
    [] last'.op = "config" -> 0
    [] last'.op = "blacklist-add" -> IF state'.blacklistedIPs # state.blacklistedIPs THEN 1 ELSE 0
    [] last'.op = "blacklist-remove" -> 1
    [] last'.op = "unlock" -> 1
    [] last'.op = "analyst" -> 1
    [] last'.op = "register" -> IF last'.outcome = "created" THEN 1 ELSE 0
    [] last'.op = "login" /\ last'.by = "user" -> IF last'.outcome = "not-found" THEN 0 ELSE 1
    [] last'.op = "transfer" /\ last'.by = "user" -> IF last'.outcome = "rejected" THEN 0 ELSE 1
    [] OTHER -> 0

BoundaryOps == {"login", "transfer", "toggle", "config", "blacklist-add", "blacklist-remove", "unlock", "analyst", "register"}

\* C25: every boundary operation that changes the store (a login or transfer
\* outcome, ToggleControl, UpdateControlConfig, AddBlacklistIP,
\* RemoveBlacklistIP, UnlockUser, an analyst action, a registration) appends
\* at least one line to the event log.
C25_MutationIsLogged ==
  [][ (last'.by = "user" /\ last'.op \in BoundaryOps /\ state' # state) => eventLogLines >= 1 ]_vars

----------------------------------------------------------------------------
(* The transactions on record from the sender of tx whose timestamp is less  *)
(* than 60 seconds before that of tx.                                        *)
RecentFromSender(st, tx) ==
  Cardinality({i \in 1..Len(st.transactions) :
                 /\ st.transactions[i].fromUserId = tx.fromUserId
                 /\ tx.timestamp - st.transactions[i].timestamp < WindowTicks})

\* C27: a transfer recorded when two or more transactions of the same sender
\* are on record from less than 60 seconds before it, whether made through
\* the transfer form or by an attack scenario, has the velocity reason among
\* its recorded reasons and a score that includes the 25 points; a transfer
\* with fewer such predecessors (those 60,000 ms or more before do not count)
\* has no velocity reason.
C27_VelocityOnThird ==
  [][ RecordsTx =>
        LET tx == LastOf(state'.transactions)
        IN  /\ ("Velocity" \in Range(tx.fraudReasons)) = (RecentFromSender(state, tx) >= 2)
            /\ RecentFromSender(state, tx) >= 2 => tx.riskScore >= 25 ]_vars

----------------------------------------------------------------------------
(* The rule engine as a function: evaluateTransactionRisk applied to the     *)
(* current store for partial transactions with present and missing sender    *)
(* and recipient, at noon and at night, with the insider scenario filling    *)
(* the sender's recent history.                                              *)
RiskMaxTicks == 3
RiskMaxAlerts == 1

GHOST == 99
NightHours == 11

RiskSenders == {USER_001, GHOST}
RiskRecipients == {USER_002, USER_MULE, GHOST}
RiskAmounts == {50000, 60000}
RiskCtx == {CtxHome, CtxForeign,
            [ip |-> "10.0.0.55", device |-> "Tor Browser/Unknown", geo |-> "Manila, PH"],
            [ip |-> "203.0.113.42", device |-> "Chrome/Windows", geo |-> "Cebu, PH"]}

riskCheck(fromUserId, toUserId, amount, ctx) ==
  LET tx == [fromUserId |-> fromUserId, toUserId |-> toUserId, amount |-> amount,
             timestamp |-> now, ip |-> ctx.ip, device |-> ctx.device, geoLocation |-> ctx.geo]
  IN  /\ last' = [op |-> "risk", outcome |-> "", by |-> "caller", gate |-> Allow, ip |-> ctx.ip,
                  tx |-> tx, risk |-> evaluateTransactionRisk(tx, state)]
      /\ UNCHANGED <<state, epoch, now, activeTab, mfaRequired, pendingTransfer, running, procs, debited>>

NextRisk ==
  \/ setActiveTab("attack-sim")
  \/ Launch("insider", MaxProcs, RiskMaxAlerts)
  \/ \E k \in 1..MaxProcs : runInsiderThreat(k)
  \/ /\ procs = <<>>
     /\ (now - StartOfRun) % (NightHours * HourTicks) < RiskMaxTicks
     /\ Advance(1, StartOfRun + NightHours * HourTicks + RiskMaxTicks)
  \/ procs = <<>> /\ Advance(NightHours * HourTicks, StartOfRun + NightHours * HourTicks + RiskMaxTicks)
  \/ \E fromUserId \in RiskSenders, toUserId \in RiskRecipients, amount \in RiskAmounts, ctx \in RiskCtx :
       riskCheck(fromUserId, toUserId, amount, ctx)

SpecRisk == Init /\ [][NextRisk]_vars

Weight(triggered, w) == IF triggered THEN w ELSE 0

RuleSum(tx) ==
  LET hasSender == \E i \in 1..Len(state.users) : state.users[i].id = tx.fromUserId
      hasRecipient == \E i \in 1..Len(state.users) : state.users[i].id = tx.toUserId
  IN  Weight(tx.amount > 50000, 30)
      + Weight(RecentFromSender(state, tx) >= 2, 25)
      + Weight(hasSender /\ tx.ip \notin UserOf(state, tx.fromUserId).knownIPs, 20)
      + Weight(hasSender /\ tx.device \notin UserOf(state, tx.fromUserId).knownDevices, 15)
      + Weight(hasRecipient /\ UserOf(state, tx.toUserId).accountAge < 7, 20)
      + Weight(tx.geoLocation \notin {"Manila, PH", "Cebu, PH", "Davao, PH"}, 15)
      + Weight((tx.timestamp % DayTicks) < 6 * HourTicks \/ (tx.timestamp % DayTicks) >= 23 * HourTicks, 10)

\* C28: evaluateTransactionRisk returns riskScore = min(100, sum of the
\* weights of the triggered rules: 30 amount > 50,000, 25 velocity, 20 unknown
\* IP, 15 unknown device, 20 recipient account age < 7 days, 15 foreign geo,
\* 10 hour < 6 or >= 23), with isFlagged = (riskScore >= 40) and the rules
\* about a missing sender or recipient skipped; a 60,000 transfer to an
\* account older than a week from a known IP and device, home geo, business
\* hours and no recent transactions scores exactly 30 and is not flagged.
C28_RuleSumCapped ==
  last.op = "risk" =>
    /\ last.risk.riskScore = (IF RuleSum(last.tx) > 100 THEN 100 ELSE RuleSum(last.tx))
    /\ last.risk.isFlagged = (last.risk.riskScore >= 40)
    /\ (/\ last.tx.amount = 60000 /\ last.tx.fromUserId = USER_001 /\ last.tx.toUserId = USER_002
        /\ last.tx.ip = CtxHome.ip /\ last.tx.device = CtxHome.device /\ last.tx.geoLocation = CtxHome.geo
        /\ getHours(now) = 12 /\ RecentFromSender(state, last.tx) = 0)
         => last.risk.riskScore = 30 /\ ~last.risk.isFlagged

C28_Witness ==
  /\ last.op = "risk" /\ RuleSum(last.tx) > 100 /\ last.risk.riskScore = 100
  /\ RecentFromSender(state, last.tx) >= 2

----------------------------------------------------------------------------
(* The alerts the step just taken appended that carry the id of tx. *)
LinkedAlerts(tx) ==
  {i \in (Len(state.fraudAlerts) + 1)..Len(state'.fraudAlerts) : state'.fraudAlerts[i].transactionId = tx.id}

\* C29: every transaction recorded with a status other than blocked, by the
\* transfer form or by a scenario, has status flagged if its recorded
\* riskScore is 40 or more and completed otherwise, and the step that records
\* it appends a fraud alert linked to it if and only if the status is flagged.
C29_FlaggedIffAlert ==
  [][ (RecordsTx /\ LastOf(state'.transactions).status # "blocked") =>
        LET tx == LastOf(state'.transactions)
        IN  /\ tx.status = (IF tx.riskScore >= 40 THEN "flagged" ELSE "completed")
            /\ (LinkedAlerts(tx) # {}) = (tx.status = "flagged") ]_vars

----------------------------------------------------------------------------
\* C30: for every transaction in the store, whatever its status, isFlagged
\* is true if and only if its recorded riskScore is 40 or more.
C30_FlagMatchesScore ==
  \A i \in 1..Len(state.transactions) :
    state.transactions[i].isFlagged = (state.transactions[i].riskScore >= 40)

----------------------------------------------------------------------------
(* A transaction with the fields a review may rewrite blanked out. *)
CreationFields(tx) == [tx EXCEPT !.status = "", !.reviewStatus = "", !.reviewedBy = "", !.reviewNote = ""]

\* C31: once a transaction is appended it is never removed or reordered
\* except by Reset, and every field other than status, reviewStatus,
\* reviewedBy and reviewNote keeps its creation-time value under every later
\* operation; the analyst's Escalate and Freeze leave reviewStatus unchanged.
C31_TransactionsAppendOnly ==
  [][ last'.op # "reset" =>
        /\ Len(state'.transactions) >= Len(state.transactions)
        /\ \A i \in 1..Len(state.transactions) :
             /\ CreationFields(state'.transactions[i]) = CreationFields(state.transactions[i])
             /\ (last'.op = "analyst" /\ last'.outcome \in {"escalate", "freeze"})
                  => state'.transactions[i].reviewStatus = state.transactions[i].reviewStatus ]_vars

C31_Witness ==
  /\ last.op = "analyst" /\ last.outcome \in {"escalate", "freeze"}
  /\ \E i \in 1..Len(state.transactions) :
       state.transactions[i].reviewedBy = "Analyst" /\ state.transactions[i].reviewStatus = "pending"

----------------------------------------------------------------------------
(* The amount the sender's account has accumulated on the day of t. *)
AccumulatedOn(acc, t) == IF acc.dailyTransferDate = t \div DayTicks THEN acc.dailyTransferred ELSE 0

AccountOf(st, accId) == st.accounts[CHOOSE i \in 1..Len(st.accounts) : st.accounts[i].id = accId]

\* C32: the daily accumulator is per calendar day.  A transfer made through
\* the form is denied for the daily limit exactly when the amount accumulated
\* on the day of the transfer (0 when the stored date is another day, whatever
\* the stored amount) plus its amount exceeds the limit, and a commit sets
\* dailyTransferDate to that day and dailyTransferred to that accumulated
\* amount plus the transfer's amount.
C32_PerCalendarDay ==
  [][ (RecordsTx /\ last'.by = "user") =>
        LET tx == LastOf(state'.transactions)
            before == AccountOf(state, tx.fromAccountId)
            after == AccountOf(state', tx.fromAccountId)
            total == AccumulatedOn(before, now) + tx.amount
            limit == state.securityControls["transaction_limit"]
        IN  /\ tx.ip \notin state.blacklistedIPs
                 => (tx.status = "blocked") = (limit.enabled /\ total > limit.dailyLimit)
            /\ tx.status # "blocked" =>
                 after.dailyTransferDate = now \div DayTicks /\ after.dailyTransferred = total ]_vars

C32_Witness ==
  /\ last.by = "user" /\ Len(state.transactions) >= 2
  /\ LastOf(state.transactions).status = "completed"
  /\ state.transactions[1].status = "completed"
  /\ state.transactions[1].timestamp \div DayTicks # now \div DayTicks
  /\ AccountOf(state, ACC_001).dailyTransferred = LastOf(state.transactions).amount

----------------------------------------------------------------------------
(* Lock expiry: jdelacruz logs in with a wrong and with the right password   *)
(* while the clock moves on by the length of a lock.                         *)
ExpiryMaxLogins == 7
ExpiryMaxLocks == 2

NextExpiry ==
  \/ \E pw \in {PW_password123, PW_letmein} : handleLogin("jdelacruz", pw, CtxHome, ExpiryMaxLogins)
  \/ Advance(LockTicks, StartOfRun + ExpiryMaxLocks * LockTicks)

SpecExpiry == Init /\ [][NextExpiry]_vars

\* C33: in every reachable state, for every user, isLocked = true implies
\* that lockoutUntil is non-null and later than the current time.
C33_LockedMeansFutureExpiry ==
  \A i \in 1..Len(state.users) :
    state.users[i].isLocked => state.users[i].lockoutUntil # NULL /\ now < state.users[i].lockoutUntil

Expired(u, t) == u.isLocked /\ u.lockoutUntil # NULL /\ t >= u.lockoutUntil

----------------------------------------------------------------------------
(* Script order: the account takeover and the money-laundering scenario run  *)
(* while the customer, back on the banking tab, logs in and transfers.       *)
ScriptMaxTx == 10
ScriptMaxLogins == 7
ScriptMaxAlerts == 1
ScriptMaxUserTx == 1
ScriptMaxUserLogins == 1

NextScript ==
  \/ \E t \in {"banking", "attack-sim"} : (t = "attack-sim" => procs = <<>>) /\ setActiveTab(t)
  \/ \E kind \in {"ato", "aml"} : Launch(kind, MaxProcs, ScriptMaxAlerts)
  \/ \E k \in 1..MaxProcs : runAccountTakeover(k, CtxForeign)
  \/ \E k \in 1..MaxProcs : runMoneyLaundering(k, CtxFamiliar, CtxForeign)
  \/ /\ Cardinality({i \in 1..Len(state.transactions) : state.transactions[i].attackScenario = "null"}) < ScriptMaxUserTx
     /\ handleTransfer("9001234567", "9009876543", 40000, CtxHome, ScriptMaxTx)
  \/ /\ Cardinality({i \in 1..Len(state.loginLogs) : state.loginLogs[i].ip = CtxHome.ip}) < ScriptMaxUserLogins
     /\ handleLogin("jdelacruz", PW_letmein, CtxHome, ScriptMaxLogins)

SpecScript == Init /\ [][NextScript]_vars

SmurfScript == <<4800, 4500, 4900, 3200, 4700, 3800, 4100, 4600>>
StuffingAttempts == 5

IsSmurf(tx) == tx.attackScenario = "Money Laundering - Smurfing"
IsLayer(tx) == tx.attackScenario = "Money Laundering - Layering"
IsTakeoverTx(tx) == tx.attackScenario = "Account Takeover"
IsTakeoverLog(l) == l.userId = USER_001 /\ l.ip = AtoCtx.ip

CountTx(st, n, P(_)) == Cardinality({i \in 1..n : P(st.transactions[i])})
CountLog(st, n, P(_)) == Cardinality({i \in 1..n : P(st.loginLogs[i])})
TakeoverSuccess(l) == IsTakeoverLog(l) /\ l.success
TakeoverAttempt(l) == IsTakeoverLog(l) /\ ~l.success

RECURSIVE ScriptSum(_)
ScriptSum(n) == IF n = 0 THEN 0 ELSE SmurfScript[((n - 1) % Len(SmurfScript)) + 1] + ScriptSum(n - 1)

----------------------------------------------------------------------------
(* Termination of the scenarios.  Every `await delay(ms)` is a timer that    *)
(* fires, so a scenario that has a next step takes it: weak fairness on the  *)
(* step of the oldest scenario in progress.                                  *)
FinishMaxProcs == 1
FinishMaxAlerts == 1

ScenarioStep(k) ==
  \/ runAccountTakeover(k, CtxForeign)
  \/ runPhishing(k)
  \/ runMoneyLaundering(k, CtxFamiliar, CtxForeign)
  \/ runSIMSwap(k)
  \/ runInsiderThreat(k)

NextFinish ==
  \/ \E t \in {"banking", "attack-sim"} : (t = "attack-sim" => procs = <<>>) /\ setActiveTab(t)
  \/ \E kind \in Kinds : Launch(kind, FinishMaxProcs, FinishMaxAlerts)
  \/ \E k \in 1..FinishMaxProcs : runAccountTakeover(k, CtxForeign)
  \/ \E k \in 1..FinishMaxProcs : runPhishing(k)
  \/ \E k \in 1..FinishMaxProcs : runMoneyLaundering(k, CtxFamiliar, CtxForeign)
  \/ \E k \in 1..FinishMaxProcs : runSIMSwap(k)
  \/ \E k \in 1..FinishMaxProcs : runInsiderThreat(k)

SpecFinish == Init /\ [][NextFinish]_vars /\ WF_vars(ScenarioStep(1))

\* C35: every started scenario eventually finishes and, on finishing,
\* releases the running guard of the page that started it, so that a new
\* scenario can be started; the guard is never set with no scenario of that
\* page in progress.
C35_ScenarioFinishes ==
  /\ [](running => \E k \in 1..Len(procs) : procs[k].mounted)
  /\ (procs # <<>>) ~> (procs = <<>>)
  /\ running ~> ~running

C35_Witness ==
  /\ procs = <<>> /\ ~running /\ activeTab = "attack-sim"
  /\ last.by = "scenario" /\ last.op # "launch"
  /\ Len(state.fraudAlerts) > 0

----------------------------------------------------------------------------
\* C37: a login attempt that the control gate denies, made through the login
\* form or by an attack scenario, records a login log with blocked = true,
\* leaves the user's failedLoginAttempts, isLocked and lockoutUntil
\* unchanged, and creates no fraud alert.
C37_DeniedLoginNoEffect ==
  [][ (last'.op = "login" /\ ~last'.gate.allowed) =>
        /\ RecordsLogin
        /\ LastOf(state'.loginLogs).blocked
        /\ LET u == UserOf(state, LastOf(state'.loginLogs).userId)
               v == UserOf(state', LastOf(state'.loginLogs).userId)
           IN  /\ v.failedLoginAttempts = u.failedLoginAttempts
               /\ v.isLocked = u.isLocked
               /\ v.lockoutUntil = u.lockoutUntil
        /\ state'.fraudAlerts = state.fraudAlerts ]_vars

----------------------------------------------------------------------------
(* Reset while a scenario is running: the insider, the phishing and the     *)
(* takeover scenario with the store reset at any point of the run.          *)
ResetMaxAlerts == 1

NextReset ==
  \/ setActiveTab("attack-sim")
  \/ \E kind \in {"insider", "phishing", "ato"} : Launch(kind, MaxProcs, ResetMaxAlerts)
  \/ \E k \in 1..MaxProcs : runInsiderThreat(k)
  \/ \E k \in 1..MaxProcs : runAccountTakeover(k, CtxForeign)
  \/ \E k \in 1..MaxProcs : runPhishing(k)
  \/ Reset

SpecReset == Init /\ [][NextReset]_vars

\* C38: in every reachable state, every fraud alert's non-null transactionId
\* names a transaction in the store, every non-null loginLogId names a login
\* log in the store, and every transaction's fromAccountId and toAccountId
\* name accounts in the store.
C38_ReferencesResolve ==
  /\ \A i \in 1..Len(state.fraudAlerts) :
       /\ state.fraudAlerts[i].transactionId # NULL
            => \E j \in 1..Len(state.transactions) : state.transactions[j].id = state.fraudAlerts[i].transactionId
       /\ state.fraudAlerts[i].loginLogId # NULL
            => \E j \in 1..Len(state.loginLogs) : state.loginLogs[j].id = state.fraudAlerts[i].loginLogId
  /\ \A i \in 1..Len(state.transactions) :
       /\ HasAccount(state, state.transactions[i].fromAccountId)
       /\ HasAccount(state, state.transactions[i].toAccountId)

----------------------------------------------------------------------------
\* C39: a wrong-password login never clears an existing lock: if the user has
\* isLocked = true before a failed login is recorded, the user has
\* isLocked = true afterwards, whatever the lockout control's enabled flag
\* and maxFailedAttempts are at that moment.
C39_FailedLoginKeepsLock ==
  [][ (/\ RecordsLogin
       /\ ~LastOf(state'.loginLogs).success
       /\ UserOf(state, LastOf(state'.loginLogs).userId).isLocked)
        => UserOf(state', LastOf(state'.loginLogs).userId).isLocked ]_vars

====
